---- MODULE Spec2Model ----
(***************************************************************************)
(* A model of the read-only SQLite reader (hgye/codecrafters-sqlite-go).   *)
(*                                                                         *)
(* SpecPager   : DatabaseRawImpl.ReadPage and its permit channel.          *)
(* SpecBTree   : the B-tree cursor, the table and index handles and the    *)
(*               planner, run over a family of database files.             *)
(* SpecFanout  : the goroutines of QueryOptimizer.fetchRowsParallel.       *)
(***************************************************************************)
EXTENDS Integers, Sequences, FiniteSets, TLC

(***************************************************************************)
(* Bounds of the model.                                                    *)
(***************************************************************************)
\* DatabaseConfig.MaxConcurrency as configured for the modelled pager
\* (WithMaxConcurrency); the default of 10 is kept small here so that more
\* callers than permits can be explored.
MaxConcurrency == 2
\* goroutines that call ReadPage on the one pager
NumCallers == 3
\* ReadPage calls started in one behaviour
MaxCalls == 4
\* the cap on the workers of fetchRowsParallel (maxWorkers := 10 in the
\* code), kept small here
MaxWorkers == 2

Callers == 1..NumCallers

VARIABLES
    \* ---- pager (database_raw.go) ----
    sem,          \* len(db.concurrencySem): permits currently in the channel
    pc,           \* per caller: position inside ReadPage
    ctxDone,      \* per caller: ctx.Done() of the context passed to the call is closed
    doneAtSelect, \* per caller: ctx was already done when the select chose a case
    reads,        \* per caller: file.ReadAt calls issued by the current/last call
    ret,          \* per caller: outcome of the current/last call
    calls         \* ReadPage calls started so far

pagerVars == <<sem, pc, ctxDone, doneAtSelect, reads, ret, calls>>

VARIABLES
    \* ---- file and cursor (index.go, table_raw.go, query_optimizer.go) ----
    file,         \* the database file: page number -> page
    op            \* the last operation run on the open database and its result

btreeVars == <<file, op>>

VARIABLES
    \* ---- fetchRowsParallel (query_optimizer.go) ----
    indexEntries, \* the entries handed to fetchRowsParallel
    mainPc,       \* position of the calling goroutine
    sent,         \* work items the calling goroutine has sent
    workChan,     \* buffered channel of work items
    workClosed,   \* close(workChan) has run
    resultChan,   \* buffered channel of results
    resultCloses, \* number of close(resultChan) calls
    wpc,          \* per worker: position in the worker goroutine
    wwork,        \* per worker: the work item (and then the result) in hand
    timedOut,     \* timeoutCtx.Done() is closed
    fetchLog,     \* the fetches made: index, error, and whether the timeout had fired
    results,      \* the results slice of the collector, by index
    arrived,      \* the results in the order the collector received them
    matchingRows  \* the rows returned

fanVars == <<indexEntries, mainPc, sent, workChan, workClosed, resultChan, resultCloses,
             wpc, wwork, timedOut, fetchLog, results, arrived, matchingRows>>

VARIABLES
    \* ---- table handle (table.go) ----
    columns       \* TableImpl.columns of the queried table: the cached column list

tableVars == <<columns>>

VARIABLES
    \* ---- catalog (sqlite_db.go) ----
    db,           \* the DatabaseImpl handle: schemaLoaded, schemas, tables, indexes
    out           \* what the calls made on the file's handles have returned, in order

catVars == <<db, out>>

vars == <<pagerVars, btreeVars, fanVars, tableVars, catVars>>

NoFile == << >>
NoOp == [name |-> "none"]
Workers == 1..MaxWorkers
NoWork == [index |-> -1]
NoDb == [schemaLoaded |-> FALSE]

\* no catalog has been opened
NoCatalog ==
    /\ db = NoDb
    /\ out = << >>

\* fetchRowsParallel has not been called
NoFanout ==
    /\ indexEntries = << >>
    /\ mainPc = "idle"
    /\ sent = 0
    /\ workChan = << >>
    /\ workClosed = FALSE
    /\ resultChan = << >>
    /\ resultCloses = 0
    /\ wpc = [w \in Workers |-> "none"]
    /\ wwork = [w \in Workers |-> NoWork]
    /\ timedOut = FALSE
    /\ fetchLog = {}
    /\ results = << >>
    /\ arrived = << >>
    /\ matchingRows = << >>

(***************************************************************************)
(* Pager: NewDatabaseRaw and ReadPage.                                     *)
(***************************************************************************)

\* NewDatabaseRaw: concurrencySem := make(chan struct{}, config.MaxConcurrency)
InitPager ==
    /\ sem = 0
    /\ pc = [c \in Callers |-> "idle"]
    /\ ctxDone = [c \in Callers |-> FALSE]
    /\ doneAtSelect = [c \in Callers |-> FALSE]
    /\ reads = [c \in Callers |-> 0]
    /\ ret = [c \in Callers |-> "none"]
    /\ calls = 0
    /\ file = NoFile
    /\ op = NoOp
    /\ NoFanout
    /\ columns = << >>
    /\ NoCatalog

\* the send case of the select: a send on a buffered channel is ready only
\* while the buffer has room
SemHasRoomUnbounded == TRUE
SemHasRoom == sem < MaxConcurrency

\* the check `ctx.Err() != nil` made right after the permit was taken
CtxErrNeverChecked(c) == FALSE
CtxErrAfterAcquire(c) == ctxDone[c]

\* the deferred `<-db.concurrencySem`, run on every return after the send
ReleaseOnlyOnSuccess(outcome) == IF outcome = "ok" THEN sem - 1 ELSE sem
DeferredRelease(outcome) == sem - 1

\* a goroutine enters ReadPage(ctx, pageNum); ctx may already be cancelled
Call(c) ==
    /\ pc[c] = "idle"
    /\ calls < MaxCalls
    /\ calls' = calls + 1
    /\ pc' = [pc EXCEPT ![c] = "select"]
    /\ \E d \in BOOLEAN : ctxDone' = [ctxDone EXCEPT ![c] = d]
    /\ doneAtSelect' = [doneAtSelect EXCEPT ![c] = FALSE]
    /\ reads' = [reads EXCEPT ![c] = 0]
    /\ ret' = [ret EXCEPT ![c] = "none"]
    /\ UNCHANGED sem

\* the caller's cancellation fires while the call is in progress
Cancel(c) ==
    /\ pc[c] # "idle"
    /\ ~ctxDone[c]
    /\ ctxDone' = [ctxDone EXCEPT ![c] = TRUE]
    /\ UNCHANGED <<sem, pc, doneAtSelect, reads, ret, calls>>

\* select case `db.concurrencySem <- struct{}{}`; Go picks any ready case, so
\* this one may be taken although ctx.Done() is ready as well
AcquirePermit(c) ==
    /\ pc[c] = "select"
    /\ SemHasRoom
    /\ sem' = sem + 1
    /\ pc' = [pc EXCEPT ![c] = "acquired"]
    /\ doneAtSelect' = [doneAtSelect EXCEPT ![c] = ctxDone[c]]
    /\ UNCHANGED <<ctxDone, reads, ret, calls>>

\* select case `<-ctx.Done()`: return "read page cancelled", no permit taken
SelectCancelled(c) ==
    /\ pc[c] = "select"
    /\ ctxDone[c]
    /\ pc' = [pc EXCEPT ![c] = "idle"]
    /\ ret' = [ret EXCEPT ![c] = "cancelled"]
    /\ doneAtSelect' = [doneAtSelect EXCEPT ![c] = TRUE]
    /\ UNCHANGED <<sem, ctxDone, reads, calls>>

\* `if err := ctx.Err(); err != nil { return ... "read page context error" }`
CheckCtx(c) ==
    /\ pc[c] = "acquired"
    /\ IF CtxErrAfterAcquire(c)
         THEN /\ pc' = [pc EXCEPT ![c] = "returning"]
              /\ ret' = [ret EXCEPT ![c] = "ctxerr"]
         ELSE /\ pc' = [pc EXCEPT ![c] = "read"]
              /\ UNCHANGED ret
    /\ UNCHANGED <<sem, ctxDone, doneAtSelect, reads, calls>>

\* n, err := db.file.ReadAt(pageData, offset), then the two error checks
ReadAt(c) ==
    /\ pc[c] = "read"
    /\ reads' = [reads EXCEPT ![c] = @ + 1]
    /\ \E outcome \in {"ok", "readerr", "short"} :
          ret' = [ret EXCEPT ![c] = outcome]
    /\ pc' = [pc EXCEPT ![c] = "returning"]
    /\ UNCHANGED <<sem, ctxDone, doneAtSelect, calls>>

\* the function returns and its deferred release runs
Return(c) ==
    /\ pc[c] = "returning"
    /\ sem' = DeferredRelease(ret[c])
    /\ pc' = [pc EXCEPT ![c] = "idle"]
    /\ UNCHANGED <<ctxDone, doneAtSelect, reads, ret, calls>>

NextPager ==
    \E c \in Callers :
        \/ Call(c)
        \/ Cancel(c)
        \/ AcquirePermit(c)
        \/ SelectCancelled(c)
        \/ CheckCtx(c)
        \/ ReadAt(c)
        \/ Return(c)

NextPagerStep == NextPager /\ UNCHANGED <<btreeVars, fanVars, tableVars, catVars>>

SpecPager == InitPager /\ [][NextPagerStep]_vars

\* callers between permit acquisition and permit release
Holders == {c \in Callers : pc[c] \in {"acquired", "read", "returning"}}

(***************************************************************************)
(* C1: at every moment the number of ReadPage calls that hold a permit is  *)
(* at most MaxConcurrency.                                                 *)
(***************************************************************************)
C1_PermitBound == Cardinality(Holders) <= MaxConcurrency

\* all permits are out and a further caller waits in the select
C1_Witness ==
    /\ Cardinality(Holders) = MaxConcurrency
    /\ \E c \in Callers : pc[c] = "select" /\ ~ctxDone[c]
    /\ \E c \in Holders : pc[c] = "read"

(***************************************************************************)
(* C2: a call whose context was cancelled before it obtained a permit      *)
(* issues no positioned read and ends with a cancellation error, whichever *)
(* select case was taken.                                                  *)
(***************************************************************************)
C2_NoIOWhenCancelledFirst ==
    \A c \in Callers :
        doneAtSelect[c] =>
            /\ reads[c] = 0
            /\ pc[c] # "read"
            /\ (pc[c] = "idle" => ret[c] \in {"cancelled", "ctxerr"})

\* the send case won the select although the context was already cancelled
C2_Witness ==
    \E c \in Callers :
        doneAtSelect[c] /\ pc[c] = "idle" /\ ret[c] = "ctxerr" /\ reads[c] = 0

(***************************************************************************)
(* C3: every call that took a permit gives exactly that permit back on     *)
(* every return path, so the permits in the channel are exactly those of   *)
(* the calls in progress, and none is out when no call is in progress.     *)
(***************************************************************************)
C3_PermitsReleased ==
    /\ sem = Cardinality(Holders)
    /\ ((\A c \in Callers : pc[c] = "idle") => sem = 0)

\* calls have returned through an error path after acquisition and all
\* permits are free again
C3_Witness ==
    /\ \A c \in Callers : pc[c] = "idle"
    /\ \E c \in Callers : ret[c] = "short"
    /\ \E c \in Callers : ret[c] = "ctxerr"
    /\ sem = 0

(***************************************************************************)
(* Codec: serial types and record bodies (types.go).                       *)
(***************************************************************************)

\* the one element of a set with one element; binding a name in such a set
\* evaluates its value once
Only(S) == CHOOSE x \in S : TRUE

\* getSerialTypeSize
getSerialTypeSize(serialType) ==
    CASE serialType \in {0, 8, 9} -> 0
      [] serialType = 1 -> 1
      [] serialType = 2 -> 2
      [] serialType = 3 -> 3
      [] serialType = 4 -> 4
      [] serialType = 5 -> 6
      [] serialType \in {6, 7} -> 8
      [] OTHER ->
           IF serialType >= 12 /\ serialType % 2 = 0 THEN (serialType - 12) \div 2
           ELSE IF serialType >= 13 /\ serialType % 2 = 1 THEN (serialType - 13) \div 2
           ELSE 0

\* readRecordBody: one entry of Values per serial type of non-zero size, in
\* order; serial types of size 0 are passed over.  data[currentOffset:] is
\* 0-based in the code, sequences are 1-based here.
RECURSIVE readRecordBodyFrom(_, _, _, _)
readRecordBodyFrom(data, SerialTypes, i, currentOffset) ==
    IF i > Len(SerialTypes) THEN [Values |-> << >>, err |-> FALSE]
    ELSE LET size == getSerialTypeSize(SerialTypes[i]) IN
         IF size = 0 THEN readRecordBodyFrom(data, SerialTypes, i + 1, currentOffset)
         ELSE IF currentOffset + size > Len(data) THEN [Values |-> << >>, err |-> TRUE]
         ELSE LET rest == readRecordBodyFrom(data, SerialTypes, i + 1, currentOffset + size) IN
              IF rest.err THEN rest
              ELSE [Values |-> <<SubSeq(data, currentOffset + 1, currentOffset + size)>> \o rest.Values,
                    err |-> FALSE]

readRecordBody(data, SerialTypes) == readRecordBodyFrom(data, SerialTypes, 1, 0)

(***************************************************************************)
(* The file format, as written by SQLite: values, records, cells, pages.   *)
(***************************************************************************)

\* a stored value: its serial type and its bytes
NullV == [st |-> 0, b |-> << >>]
TextV(bytes) == [st |-> 13 + 2 * Len(bytes), b |-> bytes]
\* integers 0 and 1 are stored as the constants 8 and 9 without data bytes,
\* small integers as one byte
IntV(n) ==
    IF n = 0 THEN [st |-> 8, b |-> << >>]
    ELSE IF n = 1 THEN [st |-> 9, b |-> << >>]
    ELSE [st |-> 1, b |-> <<n>>]

RECURSIVE ConcatBytes(_)
ConcatBytes(vals) ==
    IF vals = << >> THEN << >> ELSE Head(vals).b \o ConcatBytes(Tail(vals))

\* a record: the serial types of its header and its packed data bytes
Record(vals) ==
    [SerialTypes |-> [i \in 1..Len(vals) |-> vals[i].st], data |-> ConcatBytes(vals)]

\* rowids of the modelled table are 1..MaxRowid
MaxRowid == 3
RowIds == 1..MaxRowid
\* values of the indexed column c: the texts "A" and "B"
KeyA == <<65>>
KeyB == <<66>>
Keys == {KeyA, KeyB}

\* root pages recorded in the schema for the table and for its index on c
TblRoot == 2
IdxRoot == TblRoot + MaxRowid + 1
NumPages == IdxRoot + MaxRowid

\* the rows of a table: its rowids in ascending order, each with the value
\* of column c.  content maps every rowid of RowIds to a key, or to Absent
\* when the table has no row with that rowid.
Absent == << >>
RECURSIVE RowsFrom(_, _)
RowsFrom(content, r) ==
    IF r > MaxRowid THEN << >>
    ELSE (IF content[r] = Absent THEN << >>
          ELSE <<[rowid |-> r, c |-> content[r]]>>) \o RowsFrom(content, r + 1)

Rows(content) == RowsFrom(content, 1)

\* schema of the table: (id INTEGER PRIMARY KEY, c TEXT); the id column is
\* the rowid alias and is stored as NULL
TableLeafCell(row) ==
    [rowid |-> row.rowid, rec |-> Record(<<NullV, TextV(row.c)>>)]

\* index entries: (c, rowid), sorted by c and then by rowid
IndexRecord(row) == Record(<<TextV(row.c), IntV(row.rowid)>>)

EntriesOfKey(rows, k) == SelectSeq(rows, LAMBDA row : row.c = k)
IndexEntries(rows) == EntriesOfKey(rows, KeyA) \o EntriesOfKey(rows, KeyB)

Min(a, b) == IF a < b THEN a ELSE b

\* table B-tree of rows with at most cap cells on a leaf: the root is a leaf
\* when all rows fit, otherwise an interior page over the leaves; an
\* interior cell carries the largest rowid of its left child
TableLeaves(rows, cap) == IF Len(rows) = 0 THEN 1 ELSE (Len(rows) + cap - 1) \div cap

TableLeafPage(rows, cap, j) ==
    [kind |-> "leafT",
     cells |-> [i \in 1..(Min(j * cap, Len(rows)) - (j - 1) * cap) |->
                   TableLeafCell(rows[(j - 1) * cap + i])],
     right |-> 0]

TableRootPage(rows, cap) ==
    LET L == TableLeaves(rows, cap) IN
    IF L = 1 THEN TableLeafPage(rows, cap, 1)
    ELSE [kind |-> "intT",
          cells |-> [j \in 1..(L - 1) |->
                        [child |-> TblRoot + j, key |-> rows[j * cap].rowid]],
          right |-> TblRoot + L]

\* index B-tree with at most cap cells on a leaf: every (cap+1)-th entry
\* that has entries after it is held by an interior cell of the root, the
\* entries between two such cells are on a leaf
IndexSeps(entries, cap) == IF Len(entries) = 0 THEN 0 ELSE (Len(entries) - 1) \div (cap + 1)

IndexLeafPage(entries, cap, j) ==
    LET first == (j - 1) * (cap + 1) + 1
        last == IF j <= IndexSeps(entries, cap) THEN j * (cap + 1) - 1 ELSE Len(entries)
    IN [kind |-> "leafI",
        cells |-> [i \in 1..(last - first + 1) |-> [rec |-> IndexRecord(entries[first + i - 1])]],
        right |-> 0]

IndexRootPage(entries, cap) ==
    LET S == IndexSeps(entries, cap) IN
    IF S = 0 THEN IndexLeafPage(entries, cap, 1)
    ELSE [kind |-> "intI",
          cells |-> [j \in 1..S |->
                        [child |-> IdxRoot + j, rec |-> IndexRecord(entries[j * (cap + 1)])]],
          right |-> IdxRoot + S + 1]

\* a page that belongs to no tree
FreePage == [kind |-> "free", cells |-> << >>, right |-> 0]

\* the file holding the table with the given content, its index on c, and
\* page 1 (the schema page, read by ReadSchemaTable and not by this cursor)
MakeFile(content, tcap, icap) ==
    LET rows == Rows(content)
        entries == IndexEntries(rows)
        L == TableLeaves(rows, tcap)
        S == IndexSeps(entries, icap)
    IN [p \in 1..NumPages |->
          IF p = TblRoot THEN TableRootPage(rows, tcap)
          ELSE IF p > TblRoot /\ p <= TblRoot + L /\ L > 1 THEN TableLeafPage(rows, tcap, p - TblRoot)
          ELSE IF p = IdxRoot THEN IndexRootPage(entries, icap)
          ELSE IF p > IdxRoot /\ p <= IdxRoot + S + 1 /\ S > 0 THEN IndexLeafPage(entries, icap, p - IdxRoot)
          ELSE FreePage]

Contents == [RowIds -> Keys \cup {Absent}]
Files == {MakeFile(content, tcap, icap) : content \in Contents, tcap \in 1..MaxRowid, icap \in 1..MaxRowid}

(***************************************************************************)
(* Cell parsers (TableBTreeParser, IndexBTreeParser).                      *)
(***************************************************************************)

\* BytesToInteger: the big-endian unsigned value of the bytes
RECURSIVE BytesToInteger(_)
BytesToInteger(bytes) ==
    IF bytes = << >> THEN 0
    ELSE BytesToInteger(SubSeq(bytes, 1, Len(bytes) - 1)) * 256 + bytes[Len(bytes)]

\* ParseLeafCell of both parsers.  A table leaf cell carries its rowid; for
\* an index leaf cell the rowid is taken from the last entry of Values.
ParseLeafCell(btreeType, cell) ==
    LET body == readRecordBody(cell.rec.data, cell.rec.SerialTypes) IN
    IF body.err THEN [err |-> TRUE]
    ELSE [err |-> FALSE,
          cell |-> [Rowid |-> IF btreeType = "table" THEN cell.rowid
                              ELSE IF Len(body.Values) > 0
                                   THEN BytesToInteger(body.Values[Len(body.Values)])
                                   ELSE 0,
                    SerialTypes |-> cell.rec.SerialTypes,
                    Values |-> body.Values]]

\* the key `nil` as rendered by fmt.Sprintf("%v", key): "<nil>"
NilString == <<60, 110, 105, 108, 62>>

\* ParseInteriorCell of both parsers: the child page and the key (the rowid
\* of a table cell, the first entry of Values of an index cell, nil if none)
ParseInteriorCell(btreeType, cell) ==
    IF btreeType = "table" THEN [err |-> FALSE, childPage |-> cell.child, key |-> cell.key]
    ELSE LET body == readRecordBody(cell.rec.data, cell.rec.SerialTypes) IN
         IF body.err THEN [err |-> TRUE]
         ELSE [err |-> FALSE, childPage |-> cell.child,
               key |-> IF Len(body.Values) > 0 THEN body.Values[1] ELSE NilString]

\* ExtractSearchKey of both parsers
ExtractSearchKey(btreeType, cell) ==
    IF btreeType = "table" THEN cell.Rowid
    ELSE IF Len(cell.Values) > 0 THEN cell.Values[1] ELSE NilString

(***************************************************************************)
(* Comparators.                                                            *)
(***************************************************************************)

\* Go's string comparison: byte-wise lexicographic
RECURSIVE StrLess(_, _)
StrLess(a, b) ==
    IF b = << >> THEN FALSE
    ELSE IF a = << >> THEN TRUE
    ELSE IF Head(a) # Head(b) THEN Head(a) < Head(b)
    ELSE StrLess(Tail(a), Tail(b))

compareRowids(key1, key2) == IF key1 < key2 THEN -1 ELSE IF key1 > key2 THEN 1 ELSE 0

compareIndexKeys(key1, key2) == IF StrLess(key1, key2) THEN -1 ELSE IF StrLess(key2, key1) THEN 1 ELSE 0

comparator(btreeType, key1, key2) ==
    IF btreeType = "table" THEN compareRowids(key1, key2) ELSE compareIndexKeys(key1, key2)

(***************************************************************************)
(* The B-tree cursor (BTree in index.go).                                  *)
(***************************************************************************)

BTreeRoot(btreeType) == IF btreeType = "table" THEN TblRoot ELSE IdxRoot

\* A context: it is cancelled once `after` page reads of the operation have
\* been made, or never.
Ctx(cancels, after) == [cancels |-> cancels, after |-> after]
Background == Ctx(FALSE, 0)

\* dbRaw.ReadPage(ctx, pageNum) as the n-th page read (from 0) of an
\* operation: a cancelled context gives an error on either select case, a
\* page outside the file a ReadAt error
ReadPage(ctx, pageNum, n) ==
    IF ctx.cancels /\ n >= ctx.after THEN "cancelled"
    ELSE IF pageNum \notin DOMAIN file THEN "readerr"
    ELSE "nil"

\* isLeafPage
isLeafPage(btreeType, page) ==
    IF btreeType = "table" THEN page.kind = "leafT" ELSE page.kind = "leafI"

\* ErrorHandler.HandleProcessingError: TRUE when it returns an error
ErrorStrategyFail == "fail"
ErrorStrategySkip == "skip"
ErrorStrategyDefault == "default"
HandleProcessingError(Strategy, err) ==
    IF ~err THEN FALSE
    ELSE CASE Strategy = ErrorStrategyFail -> TRUE
           [] Strategy = ErrorStrategySkip -> FALSE
           [] Strategy = ErrorStrategyDefault -> FALSE
           [] OTHER -> TRUE

\* readLeafCells: every cell of the page in pointer order.  The error
\* handler is built inside the function with ErrorStrategySkip, whatever
\* the caller of the cursor wants: a cell that fails to parse is left out
\* and the loop goes on
RECURSIVE readLeafCellsFrom(_, _, _)
readLeafCellsFrom(btreeType, page, i) ==
    IF i > Len(page.cells) THEN [cells |-> << >>, err |-> "nil"]
    ELSE LET parsed == ParseLeafCell(btreeType, page.cells[i]) IN
         IF HandleProcessingError(ErrorStrategySkip, parsed.err)
         THEN [cells |-> << >>, err |-> "parse"]
         ELSE LET rest == readLeafCellsFrom(btreeType, page, i + 1) IN
              IF rest.err # "nil" THEN rest
              ELSE [cells |-> (IF parsed.err THEN << >> ELSE <<parsed.cell>>) \o rest.cells,
                    err |-> "nil"]

readLeafCells(btreeType, page) == readLeafCellsFrom(btreeType, page, 1)

\* the children traverseInteriorPage descends into, in the order it does:
\* the child of each cell pointer whose cell parses, then the rightmost child
RECURSIVE cellChildrenFrom(_, _, _)
cellChildrenFrom(btreeType, page, i) ==
    IF i > Len(page.cells) THEN << >>
    ELSE LET parsed == ParseInteriorCell(btreeType, page.cells[i]) IN
         (IF parsed.err THEN << >> ELSE <<parsed.childPage>>)
             \o cellChildrenFrom(btreeType, page, i + 1)

interiorChildrenNoRightmost(btreeType, page) == cellChildrenFrom(btreeType, page, 1)
interiorChildren(btreeType, page) ==
    cellChildrenFrom(btreeType, page, 1) \o <<page.right>>

\* where the B-tree page of page pageNum begins: after the 100-byte
\* database header on page 1, at byte 0 of every other page
headerOffset(pageNum) == IF pageNum = 1 THEN 100 ELSE 0

\* bytes 8..11 of the database header ("orma" of "SQLite format 3"), as a
\* big-endian page number
DbHeaderWord == 1869770081

\* an interior page as traverseInteriorPage and findChildForKey read it:
\* getRightmostChild takes pageData[8:12] and getCellPointerOffset gives
\* 12, both counted from byte 0 of the page.  On page 1 these bytes are in
\* the database header: the rightmost child is DbHeaderWord, and the cell
\* pointers read there lie outside the page, so that ParseInteriorCell
\* fails on each and the cell is passed over
interiorPageRead(pageNum) ==
    IF headerOffset(pageNum) = 0 THEN file[pageNum]
    ELSE [kind |-> file[pageNum].kind, cells |-> << >>, right |-> DbHeaderWord]

\* recursion depth explored; a descent that needs more does not return
MaxDepth == 3

\* traversePage / traverseInteriorPage.  n counts the page reads made so
\* far; the result carries the cells, the error and the new count.  The
\* error of a child traversal is dropped (`continue`, `if err == nil`): the
\* cells gathered so far are kept and the interior page returns a nil error.
RECURSIVE traversePage(_, _, _, _, _)
RECURSIVE traverseChildren(_, _, _, _, _, _, _)
traverseChildren(btreeType, children, i, ctx, n, depth, allCells) ==
    IF i > Len(children) THEN [cells |-> allCells, err |-> "nil", n |-> n]
    ELSE LET child == traversePage(btreeType, children[i], ctx, n, depth) IN
         IF child.err = "diverges" THEN child
         ELSE traverseChildren(btreeType, children, i + 1, ctx, child.n, depth,
                               IF child.err = "nil" THEN allCells \o child.cells ELSE allCells)

traversePage(btreeType, pageNum, ctx, n, depth) ==
    IF depth > MaxDepth THEN [cells |-> << >>, err |-> "diverges", n |-> n]
    ELSE LET err == ReadPage(ctx, pageNum, n) IN
         IF err # "nil" THEN [cells |-> << >>, err |-> err, n |-> n + 1]
         ELSE IF isLeafPage(btreeType, file[pageNum])
              THEN LET leaf == readLeafCells(btreeType, file[pageNum]) IN
                   [cells |-> leaf.cells, err |-> leaf.err, n |-> n + 1]
         ELSE traverseChildren(btreeType, interiorChildren(btreeType, interiorPageRead(pageNum)), 1,
                               ctx, n + 1, depth + 1, << >>)

\* TraverseAll
TraverseAll(btreeType, ctx) == traversePage(btreeType, BTreeRoot(btreeType), ctx, 0, 1)

(***************************************************************************)
(* Key search (BTree.Search).                                              *)
(***************************************************************************)

\* MatchesSearchKey of both parsers: rowid equality for a table cell, string
\* equality with the first entry of Values for an index cell
MatchesSearchKey(btreeType, cell, searchKey) ==
    IF btreeType = "table" THEN cell.Rowid = searchKey
    ELSE IF Len(cell.Values) = 0 THEN FALSE
    ELSE cell.Values[1] = searchKey

\* the test of findChildForKey on comparator(searchKey, cellKey)
descendsLeftStrict(c) == c < 0
descendsLeft(c) == c <= 0

\* findChildForKey: the child of the first cell whose key is not below the
\* search key, the rightmost child when there is none
RECURSIVE findChildFrom(_, _, _, _)
findChildFrom(btreeType, page, searchKey, i) ==
    IF i > Len(page.cells) THEN page.right
    ELSE LET parsed == ParseInteriorCell(btreeType, page.cells[i]) IN
         IF ~parsed.err /\ descendsLeft(comparator(btreeType, searchKey, parsed.key))
         THEN parsed.childPage
         ELSE findChildFrom(btreeType, page, searchKey, i + 1)

findChildForKey(btreeType, page, searchKey) == findChildFrom(btreeType, page, searchKey, 1)

\* searchLeafPage: the cells of the page that parse and match, in pointer
\* order
RECURSIVE searchLeafFrom(_, _, _, _)
searchLeafFrom(btreeType, page, searchKey, i) ==
    IF i > Len(page.cells) THEN << >>
    ELSE LET parsed == ParseLeafCell(btreeType, page.cells[i]) IN
         (IF ~parsed.err /\ MatchesSearchKey(btreeType, parsed.cell, searchKey)
          THEN <<parsed.cell>> ELSE << >>)
             \o searchLeafFrom(btreeType, page, searchKey, i + 1)

searchLeafPage(btreeType, page, searchKey) == searchLeafFrom(btreeType, page, searchKey, 1)

\* searchPage: one page per level, down to a single leaf
RECURSIVE searchPage(_, _, _, _, _, _)
searchPage(btreeType, pageNum, searchKey, ctx, n, depth) ==
    IF depth > MaxDepth THEN [cells |-> << >>, err |-> "diverges", n |-> n]
    ELSE LET err == ReadPage(ctx, pageNum, n) IN
         IF err # "nil" THEN [cells |-> << >>, err |-> err, n |-> n + 1]
         ELSE IF isLeafPage(btreeType, file[pageNum])
              THEN [cells |-> searchLeafPage(btreeType, file[pageNum], searchKey),
                    err |-> "nil", n |-> n + 1]
         ELSE searchPage(btreeType, findChildForKey(btreeType, interiorPageRead(pageNum), searchKey),
                         searchKey, ctx, n + 1, depth + 1)

Search(btreeType, searchKey, ctx) == searchPage(btreeType, BTreeRoot(btreeType), searchKey, ctx, 0, 1)

(***************************************************************************)
(* Raw table and index handles (table_raw.go).                             *)
(***************************************************************************)

\* TableRawImpl.ReadCellByRowid, for a rowid that is not negative (the
\* conversion to uint64 keeps such a value): the first matching cell, or an
\* error when the search fails or finds nothing
ReadCellByRowid(targetRowid, ctx) ==
    LET found == Search("table", targetRowid, ctx) IN
    IF found.err # "nil" THEN [err |-> found.err]
    ELSE IF Len(found.cells) = 0 THEN [err |-> "notfound"]
    ELSE [err |-> "nil", cell |-> found.cells[1]]

NewSQLiteValue(serialType, data) == [serialType |-> serialType, data |-> data]

\* the columns of the index of the file
indexedColumns == <<"C">>

\* cellToIndexEntry: the leading Values as keys, the rowid of the cell
cellToIndexEntry(cell) ==
    IF Len(cell.Values) = 0 THEN [err |-> TRUE]
    ELSE [err |-> FALSE,
          entry |-> [Keys |-> [i \in 1..Min(Len(indexedColumns), Len(cell.Values)) |->
                                  NewSQLiteValue(IF i <= Len(cell.SerialTypes)
                                                 THEN cell.SerialTypes[i] ELSE 1,
                                                 cell.Values[i])],
                     Rowid |-> cell.Rowid]]

\* IndexRawImpl.SearchKeys: the entries of the cells Search finds; a cell
\* that does not convert is skipped
RECURSIVE entriesFrom(_, _)
entriesFrom(cells, i) ==
    IF i > Len(cells) THEN << >>
    ELSE LET conv == cellToIndexEntry(cells[i]) IN
         (IF conv.err THEN << >> ELSE <<conv.entry>>) \o entriesFrom(cells, i + 1)

SearchKeys(key, ctx) ==
    LET found == Search("index", key, ctx) IN
    IF found.err # "nil" THEN [err |-> found.err, entries |-> << >>]
    ELSE [err |-> "nil", entries |-> entriesFrom(found.cells, 1)]

(***************************************************************************)
(* Rows (table.go, values.go).                                             *)
(***************************************************************************)

\* the least element of a non-empty set of integers
Least(S) == CHOOSE x \in S : \A y \in S : x <= y

\* fmt.Sprintf("%d", n) for n >= 0, as bytes
RECURSIVE Itoa(_)
Itoa(n) == IF n < 10 THEN <<48 + n>> ELSE Itoa(n \div 10) \o <<48 + (n % 10)>>

\* the schema of the table of the file:
\*   CREATE TABLE t (id INTEGER PRIMARY KEY AUTOINCREMENT, c TEXT)
TableColumns ==
    << [Name |-> "id", Index |-> 0, IsPrimaryKey |-> TRUE, IsAutoIncrement |-> TRUE],
       [Name |-> "c", Index |-> 1, IsPrimaryKey |-> FALSE, IsAutoIncrement |-> FALSE] >>

\* findAutoIncrementColumnIndex: -1 when there is none
findAutoIncrementColumnIndex(cols) ==
    LET found == {i \in 1..Len(cols) : cols[i].IsPrimaryKey /\ cols[i].IsAutoIncrement}
    IN IF found = {} THEN -1 ELSE Least(found) - 1

\* cellToRow: one value per column of the schema; processColumn takes the
\* rowid for a NULL auto-increment column, NULL for any other NULL serial
\* type, and otherwise the next entry of Values
RECURSIVE cellToRowFrom(_, _, _, _)
cellToRowFrom(cols, cell, i, recordBodyIndex) ==
    IF i > Len(cols) THEN << >>
    ELSE LET serialType == IF i <= Len(cell.SerialTypes) THEN cell.SerialTypes[i] ELSE 0 IN
         IF serialType = 0 /\ i - 1 = findAutoIncrementColumnIndex(cols)
         THEN <<NewSQLiteValue(13 + 2 * Len(Itoa(cell.Rowid)), Itoa(cell.Rowid))>>
                  \o cellToRowFrom(cols, cell, i + 1, recordBodyIndex)
         ELSE IF serialType = 0 \/ recordBodyIndex >= Len(cell.Values)
         THEN <<NewSQLiteValue(0, << >>)>> \o cellToRowFrom(cols, cell, i + 1, recordBodyIndex)
         ELSE <<NewSQLiteValue(serialType, cell.Values[recordBodyIndex + 1])>>
                  \o cellToRowFrom(cols, cell, i + 1, recordBodyIndex + 1)

\* cellToRow on a table handle whose GetSchema returns cols
cellToRowOf(cols, cell) == cellToRowFrom(cols, cell, 1, 0)
cellToRow(cell) == cellToRowOf(TableColumns, cell)

\* SQLiteValue.String
String(v) ==
    IF v.serialType = 8 THEN <<48>>
    ELSE IF v.serialType = 9 THEN <<49>>
    ELSE IF v.serialType >= 12 THEN v.data
    ELSE IF v.serialType \in 1..6 THEN Itoa(BytesToInteger(v.data))
    ELSE << >>

\* TableImpl.GetSchema, as what it leaves in t.columns: the cached list if
\* there is one, else the parsed list, which it caches
GetSchemaNoCache(cached) == cached
GetSchema(cached) == IF Len(cached) > 0 THEN cached ELSE TableColumns

\* TableImpl.GetRows: the row of every cell TraverseAll returns
GetRows(ctx) ==
    LET all == TraverseAll("table", ctx) IN
    IF all.err # "nil" THEN [err |-> all.err, rows |-> << >>]
    ELSE [err |-> "nil", rows |-> [i \in 1..Len(all.cells) |-> cellToRow(all.cells[i])]]

\* TableImpl.Count: the number of cells ReadAllCells returns
CountRootPage(ctx) ==
    LET err == ReadPage(ctx, TblRoot, 0) IN
    IF err # "nil" THEN [err |-> err, count |-> 0]
    ELSE [err |-> "nil", count |-> Len(file[TblRoot].cells)]
Count(ctx) ==
    LET all == TraverseAll("table", ctx) IN
    IF all.err # "nil" THEN [err |-> all.err, count |-> 0]
    ELSE [err |-> "nil", count |-> Len(all.cells)]

\* TableImpl.GetRowByRowid: the row of the cell ReadCellByRowid finds
GetRowByRowid(rowid, ctx) ==
    Only({ IF found.err # "nil" THEN [err |-> found.err]
           ELSE [err |-> "nil", row |-> cellToRow(found.cell)] :
           found \in {ReadCellByRowid(rowid, ctx)} })

(***************************************************************************)
(* WHERE expressions and their evaluation (query_optimizer.go).            *)
(***************************************************************************)

ColName(name) == [type |-> "ColName", Name |-> name]
SQLVal(val) == [type |-> "SQLVal", Val |-> val]
ComparisonExpr(operator, left, right) ==
    [type |-> "ComparisonExpr", Operator |-> operator, Left |-> left, Right |-> right]
AndExpr(left, right) == [type |-> "AndExpr", Left |-> left, Right |-> right]
OrExpr(left, right) == [type |-> "OrExpr", Left |-> left, Right |-> right]
NoWhere == [type |-> "nil"]

\* strings.ToUpper on the names in use
ToUpper(s) == IF s = "c" THEN "C" ELSE IF s = "id" THEN "ID" ELSE s
EqualFold(a, b) == ToUpper(a) = ToUpper(b)

\* compareValues: both sides as strings
compareValues(leftStr, rightStr, operator) ==
    IF operator = "=" THEN [match |-> leftStr = rightStr, err |-> FALSE]
    ELSE IF operator = "<" THEN [match |-> StrLess(leftStr, rightStr), err |-> FALSE]
    ELSE [match |-> FALSE, err |-> TRUE]

\* evaluateComparison: the left side must be a column of the schema (exact
\* name), the right side a literal
evaluateComparison(comp, row) ==
    IF comp.Left.type # "ColName" THEN [match |-> FALSE, err |-> TRUE]
    ELSE LET cols == {i \in 1..Len(TableColumns) : TableColumns[i].Name = comp.Left.Name} IN
         IF cols = {} THEN [match |-> FALSE, err |-> TRUE]
         ELSE LET columnIndex == TableColumns[Least(cols)].Index IN
              IF columnIndex >= Len(row) THEN [match |-> FALSE, err |-> TRUE]
              ELSE IF comp.Right.type # "SQLVal" THEN [match |-> FALSE, err |-> TRUE]
              ELSE compareValues(String(row[columnIndex + 1]), comp.Right.Val, comp.Operator)

RECURSIVE evaluateWhereClause(_, _)
evaluateWhereClause(expr, row) ==
    IF expr.type = "ComparisonExpr" THEN evaluateComparison(expr, row)
    ELSE IF expr.type = "AndExpr"
    THEN LET left == evaluateWhereClause(expr.Left, row) IN
         IF left.err \/ ~left.match THEN [match |-> FALSE, err |-> left.err]
         ELSE evaluateWhereClause(expr.Right, row)
    ELSE IF expr.type = "OrExpr"
    THEN LET left == evaluateWhereClause(expr.Left, row) IN
         IF left.err \/ left.match THEN [match |-> ~left.err, err |-> left.err]
         ELSE evaluateWhereClause(expr.Right, row)
    ELSE [match |-> FALSE, err |-> TRUE]

(***************************************************************************)
(* The planner and the two ways to run a SELECT.                           *)
(***************************************************************************)

\* an index as the planner sees it: its name and the columns of its schema,
\* which parseIndexColumns upper-cases
Index(name, cols) == [name |-> name, columns |-> cols]
idx_c == Index("idx_c", indexedColumns)
idx_id_c == Index("idx_id_c", <<"ID", "C">>)

\* the indexes of the table of the file
FileIndexes == <<idx_c>>

NoPlan == [UseIndex |-> FALSE, IndexName |-> "", IndexValue |-> << >>]

\* analyzeWhereClause: only a comparison with "=" at the top of the
\* expression, a column on its left and a literal on its right is looked
\* at; the first index with that column anywhere in its schema is taken
analyzeWhereClause(expr, indexes) ==
    IF /\ expr.type = "ComparisonExpr"
       /\ expr.Operator = "="
       /\ expr.Left.type = "ColName"
       /\ expr.Right.type = "SQLVal"
    THEN LET having == {i \in 1..Len(indexes) :
                           \E j \in 1..Len(indexes[i].columns) :
                               EqualFold(indexes[i].columns[j], expr.Left.Name)}
         IN IF having = {} THEN NoPlan
            ELSE [UseIndex |-> TRUE, IndexName |-> indexes[Least(having)].name,
                  IndexValue |-> expr.Right.Val]
    ELSE NoPlan

\* OptimizeSelect
OptimizeSelect(where, indexes) ==
    IF where = NoWhere THEN NoPlan ELSE analyzeWhereClause(where, indexes)

\* fetchRowsParallel when its timeout does not fire: the rows of the
\* entries whose fetch succeeds, in the order of the entries
RECURSIVE fetchRowsFrom(_, _, _)
fetchRowsFrom(entries, i, ctx) ==
    IF i > Len(entries) THEN << >>
    ELSE Only({ IF got.err = "nil" THEN <<got.row>> ELSE << >> :
                got \in {GetRowByRowid(entries[i].Rowid, ctx)} })
             \o fetchRowsFrom(entries, i + 1, ctx)

fetchRowsParallel(entries, ctx) == fetchRowsFrom(entries, 1, ctx)

\* the rows the WHERE clause keeps; a row whose evaluation fails is skipped
RECURSIVE filterMatching(_, _, _)
filterMatching(rows, where, i) ==
    IF i > Len(rows) THEN << >>
    ELSE LET ev == evaluateWhereClause(where, rows[i]) IN
         (IF ~ev.err /\ ev.match THEN <<rows[i]>> ELSE << >>) \o filterMatching(rows, where, i + 1)

\* executeIndexQueryWithTiming
executeIndexQueryWithTiming(plan, where, indexes, ctx) ==
    IF \A i \in 1..Len(indexes) : indexes[i].name # plan.IndexName
    THEN [err |-> "noindex", rows |-> << >>]
    ELSE Only({ IF found.err # "nil" THEN [err |-> found.err, rows |-> << >>]
                ELSE IF Len(found.entries) = 0 THEN [err |-> "nil", rows |-> << >>]
                ELSE Only({ [err |-> "nil",
                             rows |-> IF where = NoWhere THEN fetched
                                      ELSE filterMatching(fetched, where, 1)] :
                            fetched \in {fetchRowsParallel(found.entries, ctx)} }) :
                found \in {SearchKeys(plan.IndexValue, ctx)} })

\* ExecutePlan
ExecutePlan(plan, where) ==
    IF ~plan.UseIndex THEN [err |-> "noindex", rows |-> << >>]
    ELSE executeIndexQueryWithTiming(plan, where, FileIndexes, Background)

\* the table scan of handleSelectColumns: GetRows, then filterRows, which
\* fails on a row it cannot evaluate
TableScan(where, ctx) ==
    LET all == GetRows(ctx) IN
    IF all.err # "nil" THEN all
    ELSE IF where = NoWhere THEN all
    ELSE IF \E i \in 1..Len(all.rows) : evaluateWhereClause(where, all.rows[i]).err
    THEN [err |-> "eval", rows |-> << >>]
    ELSE [err |-> "nil", rows |-> filterMatching(all.rows, where, 1)]

(***************************************************************************)
(* fetchRowsParallel: the distributor (the calling goroutine), the         *)
(* workers, the goroutine that closes resultChan, and the collector.       *)
(* Indexes of work items are 1-based here, 0-based in the code.            *)
(***************************************************************************)

\* the files the fan-out runs over: every rowid holds a row, table and
\* index are on one leaf page each
FanFiles == {MakeFile(content, MaxRowid, MaxRowid) : content \in [RowIds -> Keys]}

NilRow == << >>

\* maxWorkers: 10 in the code, lowered to the number of entries
maxWorkers == Min(MaxWorkers, Len(indexEntries))

\* make(chan ..., len(indexEntries)): the capacity of workChan and of
\* resultChan
resultChanOneShort == Len(indexEntries) - 1
workChanCap == Len(indexEntries)
resultChanCap == Len(indexEntries)

\* the context the workers fetch with
ctxWithoutTimeout == Background
timeoutCtx == IF timedOut THEN Ctx(TRUE, 0) ELSE Background

\* the state when the workers have been started (lines 376-425), in the
\* first index query on the table handle: nothing has called GetSchema yet
InitFanout ==
    /\ sem = 0
    /\ pc = [c \in Callers |-> "idle"]
    /\ ctxDone = [c \in Callers |-> FALSE]
    /\ doneAtSelect = [c \in Callers |-> FALSE]
    /\ reads = [c \in Callers |-> 0]
    /\ ret = [c \in Callers |-> "none"]
    /\ calls = 0
    /\ file \in FanFiles
    /\ op = NoOp
    /\ \E key \in Keys : indexEntries = SearchKeys(key, Background).entries
    /\ Len(indexEntries) > 0
    /\ mainPc = "distribute"
    /\ sent = 0
    /\ workChan = << >>
    /\ workClosed = FALSE
    /\ resultChan = << >>
    /\ resultCloses = 0
    /\ wpc = [w \in Workers |-> IF w <= maxWorkers THEN "range" ELSE "none"]
    /\ wwork = [w \in Workers |-> NoWork]
    /\ timedOut = FALSE
    /\ fetchLog = {}
    /\ results = [i \in 1..Len(indexEntries) |-> NilRow]
    /\ arrived = << >>
    /\ matchingRows = << >>
    /\ columns = << >>
    /\ NoCatalog

\* workChan <- {entry, index}: the buffer holds every entry, the send never
\* blocks
Distribute ==
    /\ mainPc = "distribute"
    /\ sent < Len(indexEntries)
    /\ Len(workChan) < workChanCap
    /\ workChan' = Append(workChan, [entry |-> indexEntries[sent + 1], index |-> sent + 1])
    /\ sent' = sent + 1
    /\ UNCHANGED <<columns, indexEntries, mainPc, workClosed, resultChan, resultCloses, wpc, wwork,
                   timedOut, fetchLog, results, arrived, matchingRows>>

\* close(workChan), and the start of the goroutine that waits for the
\* workers
CloseWork ==
    /\ mainPc = "distribute"
    /\ sent = Len(indexEntries)
    /\ workClosed' = TRUE
    /\ mainPc' = "collect"
    /\ UNCHANGED <<columns, indexEntries, sent, workChan, resultChan, resultCloses, wpc, wwork,
                   timedOut, fetchLog, results, arrived, matchingRows>>

\* timeoutCtx is done: its 3-second timeout fires, or the caller's context
\* is cancelled
Timeout ==
    /\ mainPc \in {"distribute", "collect"}
    /\ ~timedOut
    /\ timedOut' = TRUE
    /\ UNCHANGED <<columns, indexEntries, mainPc, sent, workChan, workClosed, resultChan, resultCloses,
                   wpc, wwork, fetchLog, results, arrived, matchingRows>>

\* for work := range workChan: a work item is received
WorkerRecv(w) ==
    /\ wpc[w] = "range"
    /\ workChan # << >>
    /\ wwork' = [wwork EXCEPT ![w] = Head(workChan)]
    /\ workChan' = Tail(workChan)
    /\ wpc' = [wpc EXCEPT ![w] = "check"]
    /\ UNCHANGED <<columns, indexEntries, mainPc, sent, workClosed, resultChan, resultCloses,
                   timedOut, fetchLog, results, arrived, matchingRows>>

\* the range ends on the closed, drained channel: wg.Done()
WorkerExit(w) ==
    /\ wpc[w] = "range"
    /\ workChan = << >>
    /\ workClosed
    /\ wpc' = [wpc EXCEPT ![w] = "exited"]
    /\ UNCHANGED <<columns, indexEntries, mainPc, sent, workChan, workClosed, resultChan, resultCloses,
                   wwork, timedOut, fetchLog, results, arrived, matchingRows>>

\* select { case <-timeoutCtx.Done(): return; default: }
WorkerCheck(w) ==
    /\ wpc[w] = "check"
    /\ IF timedOut
       THEN /\ wpc' = [wpc EXCEPT ![w] = "exited"]
            /\ wwork' = [wwork EXCEPT ![w] = NoWork]
       ELSE /\ wpc' = [wpc EXCEPT ![w] = "fetch"]
            /\ UNCHANGED wwork
    /\ UNCHANGED <<columns, indexEntries, mainPc, sent, workChan, workClosed, resultChan, resultCloses,
                   timedOut, fetchLog, results, arrived, matchingRows>>

\* row, err := table.GetRowByRowid(timeoutCtx, work.entry.Rowid); the
\* conversion of the cell found (cellToRow) calls GetSchema on the handle
WorkerFetch(w) ==
    /\ wpc[w] = "fetch"
    /\ LET got == GetRowByRowid(wwork[w].entry.Rowid, timeoutCtx) IN
       /\ wwork' = [wwork EXCEPT ![w] =
                       [index |-> wwork[w].index, err |-> got.err,
                        row |-> IF got.err = "nil" THEN got.row ELSE NilRow]]
       /\ fetchLog' = fetchLog \cup {[index |-> wwork[w].index, err |-> got.err,
                                       late |-> timedOut]}
       /\ columns' = IF got.err = "nil" THEN GetSchema(columns) ELSE columns
    /\ wpc' = [wpc EXCEPT ![w] = "send"]
    /\ UNCHANGED <<indexEntries, mainPc, sent, workChan, workClosed, resultChan, resultCloses,
                   timedOut, results, arrived, matchingRows>>

\* resultChan <- rowResult{...}: the buffer holds a result per entry
WorkerSend(w) ==
    /\ wpc[w] = "send"
    /\ Len(resultChan) < resultChanCap
    /\ resultChan' = Append(resultChan, wwork[w])
    /\ wwork' = [wwork EXCEPT ![w] = NoWork]
    /\ wpc' = [wpc EXCEPT ![w] = "range"]
    /\ UNCHANGED <<columns, indexEntries, mainPc, sent, workChan, workClosed, resultCloses,
                   timedOut, fetchLog, results, arrived, matchingRows>>

\* go func() { wg.Wait(); close(resultChan) }()
CloseResults ==
    /\ mainPc = "collect"
    /\ resultCloses = 0
    /\ \A w \in Workers : wpc[w] \in {"none", "exited"}
    /\ resultCloses' = resultCloses + 1
    /\ UNCHANGED <<columns, indexEntries, mainPc, sent, workChan, workClosed, resultChan, wpc, wwork,
                   timedOut, fetchLog, results, arrived, matchingRows>>

\* for result := range resultChan: results[result.index] = result.row
Collect ==
    /\ mainPc = "collect"
    /\ resultChan # << >>
    /\ LET result == Head(resultChan) IN
       /\ results' = IF result.err = "nil" /\ result.row # NilRow
                     THEN [results EXCEPT ![result.index] = result.row]
                     ELSE results
       /\ arrived' = Append(arrived, result)
    /\ resultChan' = Tail(resultChan)
    /\ UNCHANGED <<columns, indexEntries, mainPc, sent, workChan, workClosed, resultCloses, wpc, wwork,
                   timedOut, fetchLog, matchingRows>>

\* the rows of an array of results that are not nil, in the order of the
\* array
RECURSIVE nonNilFrom(_, _)
nonNilFrom(rows, i) ==
    IF i > Len(rows) THEN << >>
    ELSE (IF rows[i] # NilRow THEN <<rows[i]>> ELSE << >>) \o nonNilFrom(rows, i + 1)

\* the rows of the valid results in the order they were received
RECURSIVE validFrom(_, _)
validFrom(received, k) ==
    IF k > Len(received) THEN << >>
    ELSE (IF received[k].err = "nil" /\ received[k].row # NilRow THEN <<received[k].row>> ELSE << >>)
             \o validFrom(received, k + 1)

\* the rows fetchRowsParallel returns, given the results slice and the
\* results as received
rowsInArrivalOrder(byIndex, received) == validFrom(received, 1)
rowsUntilFirstNil(byIndex, received) ==
    IF \E i \in 1..Len(byIndex) : byIndex[i] = NilRow
    THEN SubSeq(byIndex, 1, Least({i \in 1..Len(byIndex) : byIndex[i] = NilRow}) - 1)
    ELSE byIndex
rowsReturned(byIndex, received) == nonNilFrom(byIndex, 1)

\* the range ends on the closed, drained resultChan; the nil entries are
\* filtered out and the rows returned
Finish ==
    /\ mainPc = "collect"
    /\ resultChan = << >>
    /\ resultCloses > 0
    /\ matchingRows' = rowsReturned(results, arrived)
    /\ mainPc' = "done"
    /\ UNCHANGED <<columns, indexEntries, sent, workChan, workClosed, resultChan, resultCloses, wpc,
                   wwork, timedOut, fetchLog, results, arrived>>

NextFanout ==
    \/ Distribute
    \/ CloseWork
    \/ Timeout
    \/ \E w \in Workers :
        \/ WorkerRecv(w)
        \/ WorkerExit(w)
        \/ WorkerCheck(w)
        \/ WorkerFetch(w)
        \/ WorkerSend(w)
    \/ CloseResults
    \/ Collect
    \/ Finish

NextFanoutStep == NextFanout /\ UNCHANGED <<pagerVars, btreeVars, catVars>>

SpecFanout == InitFanout /\ [][NextFanoutStep]_vars

\* the Go scheduler runs a goroutine that can take a step
SpecFanoutLive == SpecFanout /\ WF_vars(NextFanoutStep)

\* the indexes whose result the collector received as valid
ValidIndexes == {arrived[k].index : k \in {j \in 1..Len(arrived) : arrived[j].err = "nil"}}

\* the rows of the entries at the given indexes, in the order of the entries
RECURSIVE RowsOfEntries(_, _)
RowsOfEntries(indexes, i) ==
    IF i > Len(indexEntries) THEN << >>
    ELSE (IF i \in indexes THEN <<GetRowByRowid(indexEntries[i].Rowid, Background).row>> ELSE << >>)
             \o RowsOfEntries(indexes, i + 1)

(***************************************************************************)
(* C10: the rows of the fan-out appear in the order in which the index     *)
(* returned their rowids, whatever the order in which the fetches finish.  *)
(***************************************************************************)
C10_IndexOrderPreserved ==
    (mainPc = "done") => matchingRows = RowsOfEntries(ValidIndexes, 1)

\* two fetches finished in the opposite order of their entries, and both
\* rows were returned
C10_Witness ==
    /\ mainPc = "done"
    /\ Len(matchingRows) >= 2
    /\ \E k, l \in 1..Len(arrived) :
        /\ k < l
        /\ arrived[k].err = "nil" /\ arrived[l].err = "nil"
        /\ arrived[k].index > arrived[l].index

\* the indexes whose fetch succeeded
OkFetched == {e.index : e \in {x \in fetchLog : x.err = "nil"}}

(***************************************************************************)
(* C11: a fetch that fails or finds no row is dropped by itself: the       *)
(* fan-out still ends, and every entry whose fetch succeeded has its row   *)
(* in the result.                                                          *)
(***************************************************************************)
C11_FailedFetchDroppedAlone ==
    (mainPc = "done") =>
        /\ matchingRows = RowsOfEntries(OkFetched, 1)
        /\ \A e \in fetchLog : \E k \in 1..Len(arrived) : arrived[k].index = e.index

\* without a timeout, a fetch found no row and the fetch of a later entry
\* gave a row that was returned
C11_Witness ==
    /\ mainPc = "done"
    /\ ~timedOut
    /\ \E e \in fetchLog :
        /\ e.err = "notfound"
        /\ \E i \in OkFetched : i > e.index
    /\ Len(matchingRows) >= 1

(***************************************************************************)
(* C12: when the timeout fires before every fetch has finished, no later   *)
(* fetch succeeds, the fan-out still returns, and it returns the rows that *)
(* were fetched successfully.                                              *)
(***************************************************************************)
C12_TimeoutPartialResult ==
    /\ [](\A e \in fetchLog : e.late => e.err # "nil")
    /\ []((mainPc = "done" /\ timedOut) => matchingRows = RowsOfEntries(OkFetched, 1))
    /\ (timedOut ~> (mainPc = "done"))

\* the timeout fired, a row fetched before it was returned, and an entry
\* whose row is in the table was left out
C12_Witness ==
    /\ mainPc = "done"
    /\ timedOut
    /\ Len(matchingRows) >= 1
    /\ \E i \in 1..Len(indexEntries) :
        /\ i \notin OkFetched
        /\ GetRowByRowid(indexEntries[i].Rowid, Background).err = "nil"

\* a goroutine is at a channel send that cannot proceed
SendBlocked ==
    \/ mainPc = "distribute" /\ sent < Len(indexEntries) /\ Len(workChan) >= workChanCap
    \/ \E w \in Workers : wpc[w] = "send" /\ Len(resultChan) >= resultChanCap

AllWorkersExited == \A w \in Workers : wpc[w] \in {"none", "exited"}

(***************************************************************************)
(* C30.  fetchRowsParallel always returns, under every interleaving of     *)
(* the distributor, the workers, the closer and the collector, with or     *)
(* without the timeout or a cancellation by the caller: no send on         *)
(* workChan or resultChan ever has to wait, every worker leaves its range  *)
(* loop, resultChan is closed once and only when every worker has exited,  *)
(* and the collector reaches the end of its range and returns.             *)
(***************************************************************************)
C30_FanoutAlwaysReturns ==
    /\ []~SendBlocked
    /\ [](resultCloses <= 1)
    /\ [](resultCloses > 0 => AllWorkersExited)
    /\ [](mainPc = "done" => (resultCloses = 1 /\ AllWorkersExited /\ resultChan = << >>))
    /\ <>(mainPc = "done")

\* the fan-out returned after a timeout that made a worker leave with a
\* work item it did not fetch
C30_Witness ==
    /\ mainPc = "done"
    /\ timedOut
    /\ resultCloses = 1
    /\ AllWorkersExited
    /\ Len(arrived) < Len(indexEntries)
    /\ Len(indexEntries) > MaxWorkers

(***************************************************************************)
(* Operations on the open database.                                        *)
(***************************************************************************)

BTreeTypes == {"table", "index"}

\* contexts handed to an operation: never cancelled, or cancelled after k
\* page reads
Ctxs == {Background} \cup {Ctx(TRUE, k) : k \in 0..(MaxRowid + 1)}

\* the keys looked up: those a row can hold and one no row holds
KeyC == <<67>>
SearchedKeys == Keys \cup {KeyC}

\* WHERE clauses handed to the planner
Eq(col, v) == ComparisonExpr("=", ColName(col), SQLVal(v))
Wheres ==
    { NoWhere,
      Eq("c", KeyA),
      Eq("id", <<49>>),
      ComparisonExpr("<", ColName("c"), SQLVal(KeyB)),
      ComparisonExpr("=", SQLVal(KeyA), ColName("c")),
      ComparisonExpr("=", ColName("c"), ColName("id")),
      AndExpr(Eq("c", KeyA), Eq("id", <<49>>)),
      AndExpr(Eq("id", <<49>>), Eq("c", KeyA)),
      OrExpr(Eq("c", KeyA), Eq("c", KeyB)) }

\* the sets of indexes a table can have
Catalogs == {<< >>, <<idx_c>>, <<idx_id_c>>, <<idx_id_c, idx_c>>}

\* the table handle has answered GetSchema before: its columns are cached
\* and the operations below only read them
InitBTree ==
    /\ sem = 0
    /\ pc = [c \in Callers |-> "idle"]
    /\ ctxDone = [c \in Callers |-> FALSE]
    /\ doneAtSelect = [c \in Callers |-> FALSE]
    /\ reads = [c \in Callers |-> 0]
    /\ ret = [c \in Callers |-> "none"]
    /\ calls = 0
    /\ file \in Files
    /\ op = NoOp
    /\ NoFanout
    /\ columns = TableColumns
    /\ NoCatalog

\* the strategies a caller can want for cells that fail to parse
Strategies == {ErrorStrategySkip, ErrorStrategyFail}

\* TableRawImpl.ReadAllCells / IndexRawImpl.ReadAllCells: NewBTree and
\* BTree.TraverseAll.  NewBTree(dbRaw, rootPage, btreeType) takes no error
\* strategy: the one the caller wants is recorded and goes no further.
DoTraverseAll ==
    \E btreeType \in BTreeTypes, ctx \in Ctxs, strategy \in Strategies :
        /\ op = NoOp
        /\ op' = [name |-> "TraverseAll", btreeType |-> btreeType, ctx |-> ctx,
                  strategy |-> strategy, res |-> TraverseAll(btreeType, ctx)]
        /\ UNCHANGED <<file, pagerVars, fanVars, tableVars, catVars>>

\* TableRawImpl.ReadCellByRowid
DoReadCellByRowid ==
    \E targetRowid \in 0..(MaxRowid + 1), ctx \in Ctxs :
        /\ op = NoOp
        /\ op' = [name |-> "ReadCellByRowid", targetRowid |-> targetRowid, ctx |-> ctx,
                  res |-> ReadCellByRowid(targetRowid, ctx)]
        /\ UNCHANGED <<file, pagerVars, fanVars, tableVars, catVars>>

\* IndexImpl.SearchByKey: IndexRawImpl.SearchKeys
DoSearchKeys ==
    \E key \in SearchedKeys, ctx \in Ctxs :
        /\ op = NoOp
        /\ op' = [name |-> "SearchKeys", key |-> key, ctx |-> ctx,
                  res |-> SearchKeys(key, ctx)]
        /\ UNCHANGED <<file, pagerVars, fanVars, tableVars, catVars>>

\* QueryOptimizer.OptimizeSelect on a WHERE clause, for a table with the
\* given indexes
DoOptimizeSelect ==
    \E where \in Wheres, indexes \in Catalogs :
        /\ op = NoOp
        /\ op' = [name |-> "OptimizeSelect", where |-> where, indexes |-> indexes,
                  res |-> OptimizeSelect(where, indexes)]
        /\ UNCHANGED <<file, pagerVars, fanVars, tableVars, catVars>>

\* SELECT ... WHERE c = literal on the table of the file: OptimizeSelect,
\* then ExecutePlan
DoExecutePlan ==
    \E v \in SearchedKeys :
        LET where == Eq("c", v)
            plan == OptimizeSelect(where, FileIndexes)
        IN /\ op = NoOp
           /\ op' = [name |-> "ExecutePlan", where |-> where, plan |-> plan,
                     res |-> ExecutePlan(plan, where)]
           /\ UNCHANGED <<file, pagerVars, fanVars, tableVars, catVars>>

\* SELECT COUNT(*): TableImpl.Count
DoCount ==
    \E ctx \in Ctxs :
        /\ op = NoOp
        /\ op' = [name |-> "Count", ctx |-> ctx, res |-> Count(ctx)]
        /\ UNCHANGED <<file, pagerVars, fanVars, tableVars, catVars>>

\* the operation returns to its caller, which may start another
OpReturn ==
    /\ op # NoOp
    /\ op' = NoOp
    /\ UNCHANGED <<file, pagerVars, fanVars, tableVars, catVars>>

(***************************************************************************)
(* The command line (part_009 runProgram, sqlite_engine.go).               *)
(***************************************************************************)

\* DatabaseImpl.GetTable of the table of this file: LoadSchema reads page 1
\* as the first page read of the command
GetTable(ctx) == ReadPage(ctx, 1, 0)

\* the context of the command once page 1 has been read
afterOneRead(ctx) == Ctx(ctx.cancels, IF ctx.after > 0 THEN ctx.after - 1 ELSE 0)

\* handleSelectAll, handleSelectColumns and handleCount without WHERE:
\* the table, its rows or its count, then the output; the error returned
handleSelectAll(ctx) ==
    IF GetTable(ctx) # "nil" THEN GetTable(ctx) ELSE GetRows(afterOneRead(ctx)).err
handleSelectColumns(ctx) ==
    IF GetTable(ctx) # "nil" THEN GetTable(ctx) ELSE GetRows(afterOneRead(ctx)).err
handleCount(ctx) ==
    IF GetTable(ctx) # "nil" THEN GetTable(ctx) ELSE Count(afterOneRead(ctx)).err

\* handleDBInfo and handleTables: GetTables, which loads the schema
handleTables(ctx) == GetTable(ctx)

\* handleSQL and handleSelect on the parser's result
handleSQL(sqlArgs, ctx) ==
    CASE sqlArgs = "not sql" -> "failed to parse SQL"
      [] sqlArgs = "INSERT" -> "INSERT statements not supported yet"
      [] sqlArgs = "SELECT *" -> handleSelectAll(ctx)
      [] sqlArgs = "SELECT COUNT(*)" -> handleCount(ctx)
      [] sqlArgs = "SELECT c" -> handleSelectColumns(ctx)
      [] OTHER -> "unsupported SQL statement type"

\* SqliteEngine.ExecuteCommand
ExecuteCommand(command, ctx) ==
    CASE command \in {".dbinfo", ".tables"} -> handleTables(ctx)
      [] command = ".other" -> "unknown command"
      [] OTHER -> handleSQL(command, ctx)

\* runProgram: args is the number of arguments, the state of the file
\* named and the command; ctx is the 30 s timeout of the handler
runProgram(args, ctx) ==
    IF args.len < 3 THEN "insufficient arguments"
    ELSE IF args.path = "missing" THEN "database file does not exist"
    ELSE IF args.path = "no header" THEN "parse database header"
    ELSE ExecuteCommand(args.command, ctx)

Commands == {".dbinfo", ".tables", ".other", "not sql", "INSERT", "SELECT *", "SELECT COUNT(*)", "SELECT c"}
ArgLists ==
    {[len |-> 1, path |-> "none", command |-> "none"], [len |-> 2, path |-> "db", command |-> "none"]}
        \cup [len : {3}, path : {"missing", "no header", "db"}, command : Commands]

\* page reads of the command: page 1, then those of the traversal
pageReads(args, ctx) ==
    IF args.len < 3 \/ args.path # "db" \/ args.command \in {".other", "not sql", "INSERT"} THEN 0
    ELSE IF GetTable(ctx) # "nil" \/ args.command \in {".dbinfo", ".tables"} THEN 1
    ELSE 1 + TraverseAll("table", afterOneRead(ctx)).n

DoRunProgram ==
    /\ op = NoOp
    /\ \E args \in ArgLists, ctx \in Ctxs :
          op' = [name |-> "runProgram", args |-> args, ctx |-> ctx,
                 pageReads |-> pageReads(args, ctx), res |-> runProgram(args, ctx)]
    /\ UNCHANGED <<file, pagerVars, fanVars, tableVars, catVars>>

\* BTree.Search on the table tree (a rowid) or the index tree (a key)
DoSearch ==
    /\ op = NoOp
    /\ \E btreeType \in BTreeTypes :
          \E searchKey \in (IF btreeType = "table" THEN 1..(MaxRowid + 1) ELSE SearchedKeys) :
              op' = [name |-> "Search", btreeType |-> btreeType, searchKey |-> searchKey,
                     res |-> Search(btreeType, searchKey, Background)]
    /\ UNCHANGED <<file, pagerVars, fanVars, tableVars, catVars>>

NextBTree ==
    \/ DoRunProgram
    \/ DoSearch
    \/ DoTraverseAll
    \/ DoReadCellByRowid
    \/ DoSearchKeys
    \/ DoOptimizeSelect
    \/ DoExecutePlan
    \/ DoCount
    \/ OpReturn

SpecBTree == InitBTree /\ [][NextBTree]_vars

\* a file with one damaged leaf cell: the data bytes of its record are
\* missing, so the record body cannot be read
DamageCell(f, p, i) == [f EXCEPT ![p].cells[i].rec.data = << >>]
DamagedCellsOf(f) ==
    UNION {{DamageCell(f, p, i) : i \in 1..Len(f[p].cells)} :
              p \in {q \in 1..NumPages : f[q].kind \in {"leafT", "leafI"}}}
DamagedFiles == UNION {DamagedCellsOf(f) : f \in Files}

InitDamaged ==
    /\ sem = 0
    /\ pc = [c \in Callers |-> "idle"]
    /\ ctxDone = [c \in Callers |-> FALSE]
    /\ doneAtSelect = [c \in Callers |-> FALSE]
    /\ reads = [c \in Callers |-> 0]
    /\ ret = [c \in Callers |-> "none"]
    /\ calls = 0
    /\ file \in DamagedFiles
    /\ op = NoOp
    /\ NoFanout
    /\ columns = TableColumns
    /\ NoCatalog

NextDamaged ==
    \/ DoTraverseAll
    \/ OpReturn

\* traversals of a damaged file
SpecDamaged == InitDamaged /\ [][NextDamaged]_vars

(***************************************************************************)
(* Properties of the cursor.                                               *)
(***************************************************************************)

SeqRange(s) == {s[i] : i \in 1..Len(s)}

\* the leaf cells of the tree of the given kind, as the parser reads them
LeafPages(btreeType) == {p \in DOMAIN file : isLeafPage(btreeType, file[p])}
LeafCellSet(btreeType) ==
    UNION {{ParseLeafCell(btreeType, file[p].cells[i]).cell : i \in 1..Len(file[p].cells)} :
              p \in LeafPages(btreeType)}

\* keys never decrease along the sequence (rowids of a table strictly grow)
KeyAscending(btreeType, cells) ==
    \A i \in 1..(Len(cells) - 1) :
        LET c == comparator(btreeType, ExtractSearchKey(btreeType, cells[i]),
                            ExtractSearchKey(btreeType, cells[i + 1]))
        IN IF btreeType = "table" THEN c < 0 ELSE c <= 0

RootIsInterior(btreeType) == ~isLeafPage(btreeType, file[BTreeRoot(btreeType)])

(***************************************************************************)
(* C4: TraverseAll over a well-formed tree returns every leaf cell exactly *)
(* once, in ascending key order (children in pointer order, then the       *)
(* rightmost child; the cells of a leaf in pointer order).                 *)
(***************************************************************************)
C4_TraverseAllInOrder ==
    (op.name = "TraverseAll" /\ ~op.ctx.cancels) =>
        /\ op.res.err = "nil"
        /\ SeqRange(op.res.cells) = LeafCellSet(op.btreeType)
        /\ Len(op.res.cells) = Cardinality(LeafCellSet(op.btreeType))
        /\ KeyAscending(op.btreeType, op.res.cells)

\* a table whose interior root has two cells and a rightmost child was
\* traversed
C4_Witness ==
    /\ op.name = "TraverseAll" /\ ~op.ctx.cancels /\ op.btreeType = "table"
    /\ RootIsInterior("table")
    /\ Len(file[TblRoot].cells) >= 2
    /\ Len(op.res.cells) = MaxRowid

(***************************************************************************)
(* C5: if the context is cancelled (or a child read fails) while           *)
(* TraverseAll is below an interior page, TraverseAll ends with an error,  *)
(* never with a partial list and a nil error.                              *)
(***************************************************************************)
C5_CancellationSurfaced ==
    (/\ op.name = "TraverseAll"
     /\ RootIsInterior(op.btreeType)
     /\ op.ctx.cancels /\ op.ctx.after >= 1 /\ op.ctx.after < op.res.n)
        => op.res.err # "nil"

\* the rows of the table as its leaf pages hold them
TableRowids == {cell.Rowid : cell \in LeafCellSet("table")}
RowidsWhereC(v) == {cell.Rowid : cell \in {x \in LeafCellSet("table") : x.Values = <<v>>}}

(***************************************************************************)
(* C6: get_by_rowid(r) returns at most one row: the row whose rowid is r   *)
(* when the table holds such a row, NotFound otherwise, and never a row    *)
(* with another rowid.                                                     *)
(***************************************************************************)
C6_GetByRowid ==
    (op.name = "ReadCellByRowid" /\ ~op.ctx.cancels) =>
        IF op.targetRowid \in TableRowids
        THEN /\ op.res.err = "nil"
             /\ op.res.cell \in LeafCellSet("table")
             /\ op.res.cell.Rowid = op.targetRowid
        ELSE op.res.err = "notfound"

\* a row that is the last of a left child of an interior root was found,
\* and so was one under the rightmost child
C6_Witness ==
    /\ op.name = "ReadCellByRowid" /\ ~op.ctx.cancels
    /\ RootIsInterior("table")
    /\ op.res.err = "nil"
    /\ \E i \in 1..Len(file[TblRoot].cells) : file[TblRoot].cells[i].key = op.targetRowid

C6_WitnessNotFound ==
    /\ op.name = "ReadCellByRowid" /\ ~op.ctx.cancels
    /\ RootIsInterior("table")
    /\ op.targetRowid \notin TableRowids
    /\ op.targetRowid \in RowIds
    /\ op.res.err = "notfound"

(***************************************************************************)
(* C7: the rowids of the entries search_by_key(v) returns are rowids of    *)
(* table rows whose indexed column equals v.                               *)
(***************************************************************************)
C7_IndexSubset ==
    (op.name = "SearchKeys" /\ op.res.err = "nil") =>
        {op.res.entries[i].Rowid : i \in 1..Len(op.res.entries)} \subseteq RowidsWhereC(op.key)

(***************************************************************************)
(* C8: for WHERE col = literal with an index on col, the IndexLookup plan  *)
(* returns the rows a TableScan with the same predicate returns.           *)
(***************************************************************************)
C8_IndexLookupEqualsTableScan ==
    (op.name = "ExecutePlan" /\ op.plan.UseIndex) =>
        /\ op.res.err = "nil"
        /\ op.res.rows = TableScan(op.where, Background).rows

\* the conjuncts of a WHERE expression
RECURSIVE Conjuncts(_)
Conjuncts(expr) ==
    IF expr.type = "AndExpr" THEN Conjuncts(expr.Left) \cup Conjuncts(expr.Right)
    ELSE {expr}

\* some conjunct is `col = literal` with col the first column of an index
HasLeadingColumnConjunct(where, indexes) ==
    /\ where # NoWhere
    /\ \E e \in Conjuncts(where) :
        /\ e.type = "ComparisonExpr" /\ e.Operator = "="
        /\ e.Left.type = "ColName" /\ e.Right.type = "SQLVal"
        /\ \E i \in 1..Len(indexes) : EqualFold(indexes[i].columns[1], e.Left.Name)

(***************************************************************************)
(* C9: the planner chooses IndexLookup exactly when the WHERE expression   *)
(* has a conjunct `col = literal` with col the leading column of an index  *)
(* of the table, and TableScan in every other case.                        *)
(***************************************************************************)
C9_PlannerChoice ==
    (op.name = "OptimizeSelect") =>
        (op.res.UseIndex <=> HasLeadingColumnConjunct(op.where, op.indexes))

(***************************************************************************)
(* C20.  Decoding a record yields exactly one value per serial type of its *)
(* header, in column order: a NULL serial type and the constants 8 and 9    *)
(* consume no data bytes but still yield a value (null, 0, 1); no column    *)
(* position is dropped.  Stated on the cells a full traversal returns: each *)
(* decoded cell has as many values as its header has serial types.          *)
(* readRecordBody passes over every serial type of size 0, so the table     *)
(* cells (NULL in the rowid-alias column) and the index cells of rowid 1    *)
(* (constant 9) come back one value short.                                  *)
(***************************************************************************)
C20_OneValuePerSerialType ==
    (op.name = "TraverseAll") =>
        \A k \in 1..Len(op.res.cells) :
            Len(op.res.cells[k].Values) = Len(op.res.cells[k].SerialTypes)

C13_QueryTimeReadOnly == [][columns' = columns]_vars

\* the leaf cells of the tree of the given kind that fail to parse
FailingLeafCells(btreeType) ==
    {pi \in LeafPages(btreeType) \X (1..MaxRowid) :
        /\ pi[2] <= Len(file[pi[1]].cells)
        /\ ParseLeafCell(btreeType, file[pi[1]].cells[pi[2]]).err}
ParsedLeafCells(btreeType) ==
    UNION {{ParseLeafCell(btreeType, file[p].cells[i]).cell :
               i \in {k \in 1..Len(file[p].cells) : ~ParseLeafCell(btreeType, file[p].cells[k]).err}} :
              p \in LeafPages(btreeType)}

(***************************************************************************)
(* C14.  What a cursor does with a leaf cell that fails to parse follows   *)
(* the strategy chosen when the cursor was made: under skip the cell is    *)
(* left out and the traversal goes on with the remaining cells, under fail *)
(* the traversal aborts and returns the error.  Stated on a traversal,     *)
(* never cancelled, of a tree with a leaf cell that fails to parse.        *)
(* readLeafCells builds its handler with the skip strategy itself, so a    *)
(* traversal wanted with fail returns the remaining cells and no error.    *)
(***************************************************************************)
C14_StrategyFollowed ==
    (/\ op.name = "TraverseAll"
     /\ ~op.ctx.cancels
     /\ FailingLeafCells(op.btreeType) # {})
        => IF op.strategy = ErrorStrategyFail
           THEN op.res.err # "nil"
           ELSE /\ op.res.err = "nil"
                /\ SeqRange(op.res.cells) = ParsedLeafCells(op.btreeType)

\* the 30 s timeout of the handler fired before the last page read of the
\* command: that read, and every later one, failed
TimedOutReading == op.ctx.cancels /\ op.ctx.after < op.pageReads

(***************************************************************************)
(* C26.  runProgram returns an error when there are too few arguments,     *)
(* the database file is missing or has no valid header, the SQL does not   *)
(* parse, the statement is not supported, or the timeout (a cancellation,  *)
(* a read error) made a page read of the command fail; it returns nil      *)
(* only if none of these happened.  A failed read below an interior page   *)
(* is dropped by the traversal and the command ends with nil.              *)
(***************************************************************************)
C26_ExitNonZeroOnFailure ==
    (op.name = "runProgram"
        /\ \/ op.args.len < 3
           \/ op.args.path \in {"missing", "no header"}
           \/ op.args.command \in {"not sql", "INSERT"}
           \/ TimedOutReading)
    => op.res # "nil"

(***************************************************************************)
(* C28.  On an ordered tree Search(k) returns the leaf cells whose key is  *)
(* k: the cells of TraverseAll that match k, in the same order, also when  *)
(* they lie on more than one leaf page.  searchPage follows one child per  *)
(* interior page and ends at the first leaf that can hold k.               *)
(***************************************************************************)
C28_SearchEqualsFilteredTraversal ==
    (op.name = "Search") =>
        /\ op.res.err = "nil"
        /\ op.res.cells = SelectSeq(TraverseAll(op.btreeType, Background).cells,
                                    LAMBDA cell : MatchesSearchKey(op.btreeType, cell, op.searchKey))

(***************************************************************************)
(* Descents of files with a bad child pointer (index.go).                  *)
(***************************************************************************)

\* a file with one child pointer of an interior page redirected: to the
\* page itself (a cycle, for a root also a pointer to an ancestor), to
\* page 0, or to a page after the end of the file
BadTargets(p) == {p, 0, NumPages + 1}
RedirectedOf(f) ==
    UNION {{[f EXCEPT ![p].right = target] : target \in BadTargets(p)}
               \cup {[f EXCEPT ![p].cells[1].child = target] : target \in BadTargets(p)} :
           p \in {q \in 1..NumPages : f[q].kind \in {"intT", "intI"}}}
RedirectedFiles == UNION {RedirectedOf(f) : f \in Files}

\* TraverseAll with a context that is never cancelled
DoTraverseAllBackground ==
    /\ op = NoOp
    /\ \E btreeType \in BTreeTypes :
          op' = [name |-> "TraverseAll", btreeType |-> btreeType, ctx |-> Background,
                 strategy |-> ErrorStrategySkip, res |-> TraverseAll(btreeType, Background)]
    /\ UNCHANGED <<file, pagerVars, fanVars, tableVars, catVars>>

InitRedirected ==
    /\ sem = 0
    /\ pc = [c \in Callers |-> "idle"]
    /\ ctxDone = [c \in Callers |-> FALSE]
    /\ doneAtSelect = [c \in Callers |-> FALSE]
    /\ reads = [c \in Callers |-> 0]
    /\ ret = [c \in Callers |-> "none"]
    /\ calls = 0
    /\ file \in RedirectedFiles
    /\ op = NoOp
    /\ NoFanout
    /\ columns = TableColumns
    /\ NoCatalog

NextRedirected ==
    \/ DoTraverseAllBackground
    \/ DoSearch
    \/ OpReturn

\* descents of a file with a bad child pointer
SpecRedirected == InitRedirected /\ [][NextRedirected]_vars

(***************************************************************************)
(* C29.  Every descent ends, with its cells or with an error, after a      *)
(* finite number of page reads, whatever the child pointers of the file    *)
(* are.  The model's trees have a leaf at depth 2 at most; a descent that  *)
(* goes deeper is on a cycle of child pointers, which the cursor follows   *)
(* without end, as it keeps no record of the pages on its path.            *)
(***************************************************************************)
C29_DescentTerminates ==
    (op.name \in {"TraverseAll", "Search"}) => op.res.err # "diverges"

(***************************************************************************)
(* The schema tree (page 1) as SQLite writes it.                           *)
(***************************************************************************)

\* the texts of the schema records, as bytes
TypeTable == <<116, 97, 98, 108, 101>>
TypeIndex == <<105, 110, 100, 101, 120>>
TypeView == <<118, 105, 101, 119>>
SqliteMaster == <<115, 113, 108, 105, 116, 101, 95, 109, 97, 115, 116, 101, 114>>
NameA == <<97>>
NameB == <<98>>
NameI == <<105>>
NameV == <<118>>
\* the CREATE statement of a record (its text plays no part here)
SqlText == <<67>>

\* a row of sqlite_master: type, name, tbl_name, rootpage, sql
SchemaRow(type, name, tbl_name, rootpage) ==
    [type |-> type, name |-> name, tbl_name |-> tbl_name, rootpage |-> rootpage, sql |-> SqlText]

\* the rows a schema can hold: two tables, an index on the first table and
\* a view (rootpage 0)
SchemaRows ==
    { SchemaRow(TypeTable, NameA, NameA, 2),
      SchemaRow(TypeTable, NameB, NameB, 3),
      SchemaRow(TypeIndex, NameI, NameA, 4),
      SchemaRow(TypeView, NameV, NameV, 0) }

\* the schemas: up to MaxSchema different rows, in any order of rowid
MaxSchema == 3
Schemas ==
    UNION { {s \in [1..n -> SchemaRows] : \A i, j \in 1..n : i # j => s[i] # s[j]} :
            n \in 0..MaxSchema }

SchemaCell(row, rowid) ==
    [rowid |-> rowid,
     rec |-> Record(<<TextV(row.type), TextV(row.name), TextV(row.tbl_name),
                      IntV(row.rootpage), TextV(row.sql)>>)]

\* number of leaves when each holds up to cap cells
SchemaLeaves(schema, cap) == (Len(schema) + cap - 1) \div cap

SchemaLeafPage(schema, cap, j) ==
    LET first == (j - 1) * cap + 1
        last == Min(j * cap, Len(schema))
    IN [kind |-> "leafT",
        cells |-> [i \in 1..(last - first + 1) |-> SchemaCell(schema[first + i - 1], first + i - 1)],
        right |-> 0]

\* the file of a schema: page 1 is the one leaf, or an interior page over
\* the leaves on pages 2, 3, ...
MakeSchemaFile(schema, cap) ==
    LET L == SchemaLeaves(schema, cap) IN
    IF L <= 1 THEN [p \in 1..1 |-> SchemaLeafPage(schema, Len(schema) + 1, 1)]
    ELSE [p \in 1..(L + 1) |->
            IF p = 1
            THEN [kind |-> "intT",
                  cells |-> [j \in 1..(L - 1) |-> [child |-> j + 1, key |-> j * cap]],
                  right |-> L + 1]
            ELSE SchemaLeafPage(schema, cap, p - 1)]

SchemaFiles == {MakeSchemaFile(schema, cap) : schema \in Schemas, cap \in 1..MaxSchema}

\* the leaf cells of the schema tree in key order
RECURSIVE LeafCellsOf(_, _)
LeafCellsOf(children, i) ==
    IF i > Len(children) THEN << >>
    ELSE file[children[i]].cells \o LeafCellsOf(children, i + 1)

SchemaLeafCells ==
    IF file[1].kind = "leafT" THEN file[1].cells
    ELSE LeafCellsOf([j \in 1..Len(file[1].cells) |-> file[1].cells[j].child] \o <<file[1].right>>, 1)

\* the values of a record by the file format: one per serial type
RECURSIVE FormatValuesFrom(_, _, _)
FormatValuesFrom(rec, i, offset) ==
    IF i > Len(rec.SerialTypes) THEN << >>
    ELSE LET st == rec.SerialTypes[i]
             size == getSerialTypeSize(st)
         IN <<[st |-> st, b |-> SubSeq(rec.data, offset + 1, offset + size)]>>
                \o FormatValuesFrom(rec, i + 1, offset + size)

\* the sqlite_master rows stored in the leaf cells, in key order
StoredSchema ==
    [k \in 1..Len(SchemaLeafCells) |->
        LET v == FormatValuesFrom(SchemaLeafCells[k].rec, 1, 0) IN
        [type |-> v[1].b, name |-> v[2].b, tbl_name |-> v[3].b]]

(***************************************************************************)
(* Catalog load and listing (database_raw.go, types.go, sqlite_db.go).     *)
(***************************************************************************)

\* readCellsFromPage1: the cells of page 1 in pointer order; an error when
\* the context is done, when page 1 is not a leaf table page, or when a
\* cell cannot be read
RECURSIVE readCellsFrom(_, _)
readCellsFrom(page, i) ==
    IF i > Len(page.cells) THEN [cells |-> << >>, err |-> "nil"]
    ELSE LET parsed == ParseLeafCell("table", page.cells[i])
             rest == readCellsFrom(page, i + 1)
         IN IF parsed.err THEN [cells |-> << >>, err |-> "readcell"]
            ELSE IF rest.err # "nil" THEN rest
            ELSE [cells |-> <<parsed.cell>> \o rest.cells, err |-> "nil"]

readCellsFromPage1(ctx, page) ==
    IF ctx.cancels /\ ctx.after <= 1 THEN [cells |-> << >>, err |-> "cancelled"]
    ELSE IF page.kind # "leafT" THEN [cells |-> << >>, err |-> "pagetype"]
    ELSE readCellsFrom(page, 1)

\* ReadSchemaTable
ReadSchemaTable(ctx) ==
    LET err == ReadPage(ctx, 1, 0) IN
    IF err # "nil" THEN [cells |-> << >>, err |-> err]
    ELSE readCellsFromPage1(ctx, file[1])

\* RecordBody.ParseAsSchema: nil (here NoSchemaRecord) with fewer than five
\* values; the root page is the first byte of the fourth value
NoSchemaRecord == [Type |-> << >>]
ParseAsSchema(Values) ==
    IF Len(Values) < 5 THEN NoSchemaRecord
    ELSE [Type |-> Values[1], Name |-> Values[2], TblName |-> Values[3],
          RootPage |-> IF Len(Values[4]) > 0 THEN Values[4][1] ELSE 0,
          SQL |-> Values[5]]

\* first loop of LoadSchema: the records that parse, in cell order
RECURSIVE parseSchemas(_, _)
parseSchemas(schemaCells, i) ==
    IF i > Len(schemaCells) THEN << >>
    ELSE LET schema == ParseAsSchema(schemaCells[i].Values) IN
         (IF schema = NoSchemaRecord THEN << >> ELSE <<schema>>)
             \o parseSchemas(schemaCells, i + 1)

\* m[k] = v on a Go map
MapPut(m, k, v) == [x \in (DOMAIN m) \cup {k} |-> IF x = k THEN v ELSE m[x]]
EmptyMap == << >>

\* second loop of LoadSchema: a table record makes a table handle; an
\* index record makes an index handle, and AddIndex on its table when the
\* tables map holds that table at this point of the loop
RECURSIVE buildHandles(_, _, _, _)
buildHandles(schemas, i, tables, indexes) ==
    IF i > Len(schemas) THEN [tables |-> tables, indexes |-> indexes]
    ELSE LET schema == schemas[i] IN
         IF schema.Type = TypeTable /\ schema.Name # SqliteMaster
         THEN buildHandles(schemas, i + 1,
                           MapPut(tables, schema.Name, [schema |-> schema, indexes |-> << >>]),
                           indexes)
         ELSE IF schema.Type = TypeIndex
         THEN buildHandles(schemas, i + 1,
                           IF schema.TblName \in DOMAIN tables
                           THEN [tables EXCEPT ![schema.TblName].indexes = Append(@, schema.Name)]
                           ELSE tables,
                           MapPut(indexes, schema.Name, [schema |-> schema, tableName |-> schema.TblName]))
         ELSE buildHandles(schemas, i + 1, tables, indexes)

\* NewDatabase
NewDatabase == [schemaLoaded |-> FALSE, schemas |-> << >>, tables |-> EmptyMap, indexes |-> EmptyMap]

\* LoadSchema: the handle it leaves and what it returns
LoadSchema(d, ctx) ==
    IF d.schemaLoaded THEN [db |-> d, err |-> "nil", schemas |-> d.schemas]
    ELSE LET read == ReadSchemaTable(ctx) IN
         IF read.err # "nil" THEN [db |-> d, err |-> read.err, schemas |-> << >>]
         ELSE LET schemas == parseSchemas(read.cells, 1)
                  built == buildHandles(schemas, 1, EmptyMap, EmptyMap)
              IN [db |-> [schemaLoaded |-> TRUE, schemas |-> schemas,
                          tables |-> built.tables, indexes |-> built.indexes],
                  err |-> "nil", schemas |-> schemas]

\* the orders in which `for name := range db.tables` can visit the keys of
\* a map: any
RangeOrders(m) ==
    {s \in [1..Cardinality(DOMAIN m) -> DOMAIN m] : \A i, j \in DOMAIN s : i # j => s[i] # s[j]}

\* calls made on one file
MaxOut == 3

\* the file of the catalog and a handle just opened
InitCatalog ==
    /\ sem = 0
    /\ pc = [c \in Callers |-> "idle"]
    /\ ctxDone = [c \in Callers |-> FALSE]
    /\ doneAtSelect = [c \in Callers |-> FALSE]
    /\ reads = [c \in Callers |-> 0]
    /\ ret = [c \in Callers |-> "none"]
    /\ calls = 0
    /\ file \in SchemaFiles
    /\ op = NoOp
    /\ NoFanout
    /\ columns = << >>
    /\ db = NewDatabase
    /\ out = << >>

\* DatabaseImpl.LoadSchema
DoLoadSchema ==
    /\ Len(out) < MaxOut
    /\ LET r == LoadSchema(db, Background) IN
       /\ db' = r.db
       /\ out' = Append(out, [op |-> "LoadSchema", err |-> r.err, schemas |-> r.schemas])

\* DatabaseImpl.GetTables
DoGetTables ==
    /\ Len(out) < MaxOut
    /\ LET r == LoadSchema(db, Background) IN
       /\ db' = r.db
       /\ IF r.err # "nil"
          THEN out' = Append(out, [op |-> "GetTables", err |-> r.err, names |-> << >>])
          ELSE \E order \in RangeOrders(r.db.tables) :
                  out' = Append(out, [op |-> "GetTables", err |-> "nil",
                                      names |-> <<SqliteMaster>> \o order])

\* DatabaseImpl.GetTableIndexes: GetTable(name) and then TableImpl.GetIndexes
DoGetIndexes ==
    /\ Len(out) < MaxOut
    /\ \E name \in {NameA, NameB} :
        LET r == LoadSchema(db, Background) IN
        /\ db' = r.db
        /\ out' = Append(out,
              IF r.err # "nil" THEN [op |-> "GetIndexes", table |-> name, err |-> r.err, indexes |-> << >>]
              ELSE IF name \notin DOMAIN r.db.tables
              THEN [op |-> "GetIndexes", table |-> name, err |-> "notfound", indexes |-> << >>]
              ELSE [op |-> "GetIndexes", table |-> name, err |-> "nil",
                    indexes |-> r.db.tables[name].indexes])

\* Close, and NewDatabase on the same file
Reopen ==
    /\ db # NewDatabase
    /\ db' = NewDatabase
    /\ out' = out

NextCatalog ==
    \/ DoLoadSchema
    \/ DoGetTables
    \/ DoGetIndexes
    \/ Reopen

NextCatalogStep == NextCatalog /\ UNCHANGED <<pagerVars, btreeVars, fanVars, tableVars>>

SpecCatalog == InitCatalog /\ [][NextCatalogStep]_vars

\* the user tables of the stored schema, in the order of their records
StoredTableNames ==
    LET tbls == SelectSeq(StoredSchema, LAMBDA r : r.type = TypeTable /\ r.name # SqliteMaster)
    IN [k \in 1..Len(tbls) |-> tbls[k].name]

SeqElems(s) == {s[k] : k \in 1..Len(s)}

(***************************************************************************)
(* C15.  Idempotence: executing an operation twice on one open handle      *)
(* gives the same output both times, and the same as executing it once on  *)
(* a freshly opened handle.  Stated on the calls made on one unchanged     *)
(* file: any two calls of the same operation with the same argument have   *)
(* returned the same output.  GetTables lists the tables in the order of a *)
(* Go map range, which differs from call to call.                          *)
(***************************************************************************)
C15_Idempotent ==
    \A i, j \in 1..Len(out) :
        (/\ out[i].op = out[j].op
         /\ (out[i].op = "GetIndexes" => out[i].table = out[j].table))
            => out[i] = out[j]

(***************************************************************************)
(* C16.  After catalog load, every index record whose tbl_name names a     *)
(* table of the catalog is in that table's index list, whatever the order  *)
(* of the table record and the index record in the schema tree.  An index  *)
(* record met before its table record is not attached: the tables map does *)
(* not hold the table yet.                                                 *)
(***************************************************************************)
C16_IndexesAttached ==
    db.schemaLoaded =>
        \A k \in 1..Len(StoredSchema) :
            (/\ StoredSchema[k].type = TypeIndex
             /\ StoredSchema[k].tbl_name \in DOMAIN db.tables)
                => StoredSchema[k].name \in SeqElems(db.tables[StoredSchema[k].tbl_name].indexes)

(***************************************************************************)
(* C17.  The table-name listing is sqlite_master followed by each user     *)
(* table name exactly once, in the order of the table records in the       *)
(* schema tree; index and view records are not listed.  The names after    *)
(* sqlite_master come out in the order of a Go map range.                  *)
(***************************************************************************)
C17_ListingInSchemaOrder ==
    \A i \in 1..Len(out) :
        (out[i].op = "GetTables" /\ out[i].err = "nil")
            => out[i].names = <<SqliteMaster>> \o StoredTableNames

(***************************************************************************)
(* C18.  Catalog load yields one schema record for every leaf cell of the  *)
(* table B-tree rooted at page 1, whether page 1 is a leaf page or an      *)
(* interior page whose leaves are on other pages.  readCellsFromPage1      *)
(* rejects a page 1 that is not a leaf table page, and ParseAsSchema drops *)
(* a record that decodes to fewer than five values (rootpage 0 or 1).      *)
(***************************************************************************)
C18_OneRecordPerLeafCell ==
    \A i \in 1..Len(out) :
        (out[i].op = "LoadSchema")
            => /\ out[i].err = "nil"
               /\ Len(out[i].schemas) = Len(SchemaLeafCells)

(***************************************************************************)
(* Rows, records and cells as bytes (table.go, types.go, part_001,         *)
(* database_raw.go).                                                       *)
(***************************************************************************)

\* a column as declared in CREATE TABLE: its name, its type, whether it is
\* declared PRIMARY KEY, and whether AUTOINCREMENT follows
ColumnDecl(name, type, primaryKey, autoincrement) ==
    [Name |-> name, Type |-> type, PrimaryKey |-> primaryKey, Autoincrement |-> autoincrement]

\* parseTableSchema: IsAutoIncrement is the parser's Autoincrement flag,
\* and IsPrimaryKey is set only for an INTEGER column that has it
parseTableSchema(decl) ==
    [i \in 1..Len(decl) |->
        [Name |-> decl[i].Name, Index |-> i - 1,
         IsPrimaryKey |-> decl[i].Autoincrement /\ ToUpper(decl[i].Type) = "INTEGER",
         IsAutoIncrement |-> decl[i].Autoincrement]]

\* CREATE TABLE t (id INTEGER PRIMARY KEY AUTOINCREMENT, n INTEGER, c TEXT)
\* CREATE TABLE t (id INTEGER PRIMARY KEY, n INTEGER, c TEXT)
TableDecls ==
    { <<ColumnDecl("id", "INTEGER", TRUE, auto), ColumnDecl("n", "INTEGER", FALSE, FALSE),
        ColumnDecl("c", "TEXT", FALSE, FALSE)>> : auto \in BOOLEAN }

\* the column that is the alias of the rowid: INTEGER PRIMARY KEY
IsRowidAlias(col) == col.PrimaryKey /\ col.Type = "INTEGER"

\* what SQLite stores in a column: NULL for the rowid alias, else one of a
\* few integers and texts
StoredIn(col) ==
    IF IsRowidAlias(col) THEN {NullV}
    ELSE IF col.Type = "INTEGER" THEN {NullV, IntV(0), IntV(1), IntV(7)}
    ELSE {NullV, TextV(KeyA), TextV(KeyB), TextV(<< >>)}

StoredRows(decl) ==
    {vals \in [1..Len(decl) -> UNION {StoredIn(decl[i]) : i \in 1..Len(decl)}] :
        \A i \in 1..Len(decl) : vals[i] \in StoredIn(decl[i])}

\* TableImpl.cellToRow on the leaf cell of a stored row
DoCellToRow ==
    /\ op = NoOp
    /\ \E decl \in TableDecls, rowid \in RowIds :
          \E stored \in StoredRows(decl) :
              op' = [name |-> "cellToRow", decl |-> decl, rowid |-> rowid, stored |-> stored,
                     res |-> cellToRowOf(parseTableSchema(decl),
                                         ParseLeafCell("table",
                                             [rowid |-> rowid, rec |-> Record(stored)]).cell)]
    /\ UNCHANGED <<file, pagerVars, fanVars, tableVars, catVars>>

(***************************************************************************)
(* C21.  A row has, for each column in schema order, the value its own     *)
(* serial type gives: the cell's rowid when the serial type is NULL and    *)
(* the column is the INTEGER PRIMARY KEY, otherwise the column's own       *)
(* stored bytes with its serial type; no value moves to a neighbouring     *)
(* column.  A column stored with a serial type of size 0 other than NULL   *)
(* (the integers 0 and 1, the empty text) takes the bytes of the next      *)
(* column, and an INTEGER PRIMARY KEY without AUTOINCREMENT comes out NULL.*)
(***************************************************************************)
C21_ColumnValuesInPlace ==
    (op.name = "cellToRow") =>
        /\ Len(op.res) = Len(op.decl)
        /\ \A i \in 1..Len(op.decl) :
              IF op.stored[i].st = 0 /\ IsRowidAlias(op.decl[i])
              THEN String(op.res[i]) = Itoa(op.rowid)
              ELSE op.res[i] = NewSQLiteValue(op.stored[i].st, op.stored[i].b)

(***************************************************************************)
(* Cells as bytes of a page: varints, record headers, payloads (types.go,  *)
(* part_001, database_raw.go).  data[i] of the code is data[i + 1] here.   *)
(***************************************************************************)

\* readVarint: up to nine bytes from offset, seven bits of each of the
\* first eight; (result, 0) when the data ends before the last byte
RECURSIVE readVarintFrom(_, _, _, _)
readVarintFrom(data, offset, i, result) ==
    IF ~(i < 9 /\ offset + i < Len(data)) THEN [value |-> result, bytesRead |-> 0]
    ELSE IF i = 8 THEN [value |-> result * 256 + data[offset + i + 1], bytesRead |-> i + 1]
    ELSE IF data[offset + i + 1] < 128
    THEN [value |-> result * 128 + data[offset + i + 1], bytesRead |-> i + 1]
    ELSE readVarintFrom(data, offset, i + 1, result * 128 + (data[offset + i + 1] % 128))

readVarint(data, offset) == readVarintFrom(data, offset, 0, 0)

\* VarintReader.ReadVarint on a reader over data at vr.offset = offset: the
\* value, the error and the offset after the call
ReadVarint(data, offset) ==
    IF offset >= Len(data) THEN [value |-> 0, err |-> TRUE, offset |-> offset]
    ELSE IF readVarint(data, offset).bytesRead = 0 THEN [value |-> 0, err |-> TRUE, offset |-> offset]
    ELSE [value |-> readVarint(data, offset).value, err |-> FALSE,
          offset |-> offset + readVarint(data, offset).bytesRead]

\* the loop of readRecordHeader: serial types until the reader reaches
\* headerEnd or a varint fails
RECURSIVE readSerialTypes(_, _, _, _)
readSerialTypes(data, offset, headerEnd, originalOffset) ==
    IF ~(offset < headerEnd /\ originalOffset < headerEnd)
    THEN [SerialTypes |-> << >>, offset |-> offset]
    ELSE IF ReadVarint(data, offset).err THEN [SerialTypes |-> << >>, offset |-> offset]
    ELSE [SerialTypes |-> <<ReadVarint(data, offset).value>>
                           \o readSerialTypes(data, ReadVarint(data, offset).offset,
                                              headerEnd, originalOffset).SerialTypes,
          offset |-> readSerialTypes(data, ReadVarint(data, offset).offset,
                                     headerEnd, originalOffset).offset]

\* readRecordHeader(data, 0): the header and the offset of the body
readRecordHeader(data) ==
    IF ReadVarint(data, 0).err THEN [HeaderSize |-> 0, SerialTypes |-> << >>, offset |-> 0]
    ELSE IF ReadVarint(data, 0).value = 0
    THEN [HeaderSize |-> 0, SerialTypes |-> << >>, offset |-> ReadVarint(data, 0).offset]
    ELSE [HeaderSize |-> ReadVarint(data, 0).value,
          SerialTypes |-> readSerialTypes(data, ReadVarint(data, 0).offset,
                                          ReadVarint(data, 0).value,
                                          ReadVarint(data, 0).offset).SerialTypes,
          offset |-> readSerialTypes(data, ReadVarint(data, 0).offset,
                                     ReadVarint(data, 0).value,
                                     ReadVarint(data, 0).offset).offset]

\* the payload of a cell: an error when it ends after the page, else the
\* payloadSize bytes from offset
payloadTruncated(pageData, offset, payloadSize) ==
    [err |-> FALSE, payload |-> SubSeq(pageData, offset + 1, Min(offset + payloadSize, Len(pageData)))]

readPayload(pageData, offset, payloadSize) ==
    IF offset + payloadSize > Len(pageData) THEN [err |-> TRUE, payload |-> << >>]
    ELSE [err |-> FALSE, payload |-> SubSeq(pageData, offset + 1, offset + payloadSize)]

\* a cell that was not parsed, with the error returned
NoCell(err, payloadOffset, payloadSize) ==
    [err |-> err, Rowid |-> 0, SerialTypes |-> << >>, Values |-> << >>,
     payload |-> << >>, payloadOffset |-> payloadOffset, payloadSize |-> payloadSize]

\* parseRecord, and the same two calls in ParseLeafCell: header, then body
parseRecord(payload) ==
    Only({ [err |-> readRecordBodyFrom(payload, header.SerialTypes, 1, header.offset).err,
            SerialTypes |-> header.SerialTypes,
            Values |-> readRecordBodyFrom(payload, header.SerialTypes, 1, header.offset).Values]
           : header \in {readRecordHeader(payload)} })

\* the cell returned for a payload read at payloadOffset
CellOf(rowID, payload, payloadOffset, payloadSize) ==
    Only({ IF record.err THEN NoCell("record", payloadOffset, payloadSize)
           ELSE [err |-> "nil", Rowid |-> rowID, SerialTypes |-> record.SerialTypes,
                 Values |-> record.Values, payload |-> payload,
                 payloadOffset |-> payloadOffset, payloadSize |-> payloadSize]
           : record \in {parseRecord(payload)} })

\* TableBTreeParser.ParseLeafCell(pageData, offset): bytesRead of the two
\* varints is added to the offset and not looked at
TableParseLeafCell(pageData, offset) ==
    IF offset >= Len(pageData) THEN NoCell("offset", offset, 0)
    ELSE Only({ Only({ Only({ IF pl.err
                              THEN NoCell("boundary", offset + size.bytesRead + rowID.bytesRead, size.value)
                              ELSE CellOf(rowID.value, pl.payload,
                                          offset + size.bytesRead + rowID.bytesRead, size.value)
                              : pl \in {readPayload(pageData, offset + size.bytesRead + rowID.bytesRead,
                                                    size.value)} })
                       : rowID \in {readVarint(pageData, offset + size.bytesRead)} })
                : size \in {readVarint(pageData, offset)} })

\* DatabaseRawImpl.readCell(pageData, offset): a VarintReader over
\* pageData[offset:], each varint checked
readCell(pageData, offset) ==
    IF offset >= Len(pageData) THEN NoCell("offset", offset, 0)
    ELSE Only({ IF size.err THEN NoCell("varint", offset, 0)
                ELSE Only({ IF rowID.err THEN NoCell("varint", offset, 0)
                            ELSE Only({ IF pl.err THEN NoCell("boundary", rowID.offset, size.value)
                                        ELSE CellOf(rowID.value, pl.payload, rowID.offset, size.value)
                                        : pl \in {readPayload(pageData, rowID.offset, size.value)} })
                            : rowID \in {ReadVarint(pageData, size.offset)} })
                : size \in {ReadVarint(pageData, offset)} })

\* the bytes a page buffer holds here: small sizes and serial types, the
\* reserved serial type 10, and a byte with the continuation bit set
ByteVals == {1, 2, 3, 10, 128}
MaxPageLen == 5
PageBuffers == UNION {[1..n -> ByteVals] : n \in 1..MaxPageLen}

\* TableBTreeParser.ParseLeafCell at a cell pointer of a page buffer
DoParseLeafCell ==
    /\ op = NoOp
    /\ \E pageData \in PageBuffers :
          \E offset \in 0..Len(pageData) :
              op' = [name |-> "ParseLeafCell", pageData |-> pageData, offset |-> offset,
                     res |-> TableParseLeafCell(pageData, offset)]
    /\ UNCHANGED <<file, pagerVars, fanVars, tableVars, catVars>>

\* DatabaseRawImpl.readCell at a cell pointer of a page buffer
DoReadCell ==
    /\ op = NoOp
    /\ \E pageData \in PageBuffers :
          \E offset \in 0..Len(pageData) :
              op' = [name |-> "readCell", pageData |-> pageData, offset |-> offset,
                     res |-> readCell(pageData, offset)]
    /\ UNCHANGED <<file, pagerVars, fanVars, tableVars, catVars>>

\* the varint at offset is complete in data: its last byte (the first byte
\* without continuation bit, or the ninth) is in the data
VarintLen(data, offset) ==
    IF \E i \in 0..8 : offset + i < Len(data) /\ (i = 8 \/ data[offset + i + 1] < 128)
                       /\ \A j \in 0..(i - 1) : data[offset + j + 1] >= 128
    THEN 1 + Least({i \in 0..8 : offset + i < Len(data) /\ (i = 8 \/ data[offset + i + 1] < 128)})
    ELSE 0

ParsesCell == op.name \in {"ParseLeafCell", "readCell"}
\* one of the two varints that start the cell is cut off by the end of the page
CellVarintCutOff ==
    /\ op.offset < Len(op.pageData)
    /\ \/ VarintLen(op.pageData, op.offset) = 0
       \/ VarintLen(op.pageData, op.offset + VarintLen(op.pageData, op.offset)) = 0

(***************************************************************************)
(* C22.  A varint that the buffer ends before completing is an error: a    *)
(* cell whose payload size or rowid varint is cut off by the end of the    *)
(* page is not parsed, its truncated value is used by no caller.           *)
(* readVarint returns the bits read so far with bytesRead 0, and           *)
(* TableBTreeParser.ParseLeafCell goes on with that value.                 *)
(***************************************************************************)
C22_TruncatedVarintFails ==
    (ParsesCell /\ CellVarintCutOff) => op.res.err # "nil"

(***************************************************************************)
(* C23.  A record whose header holds the reserved serial type 10 or 11     *)
(* is not decoded: the parse of its cell fails.  getSerialTypeSize         *)
(* returns 0 for them and the value is passed over like a NULL.            *)
(***************************************************************************)
C23_ReservedSerialTypeFails ==
    (ParsesCell /\ op.res.err = "nil") => \A i \in 1..Len(op.res.SerialTypes) :
                                             op.res.SerialTypes[i] \notin {10, 11}

RECURSIVE BigEndian(_, _)
BigEndian(n, width) ==
    IF width = 0 THEN << >> ELSE BigEndian(n \div 256, width - 1) \o <<n % 256>>

\* a non-negative integer as SQLite stores it: the constants 0 and 1, else
\* the smallest of the signed widths 1, 2, 3, 4 bytes (serial types 1 to 4)
IntegerV(n) ==
    IF n <= 1 THEN IntV(n)
    ELSE IF n < 128 THEN [st |-> 1, b |-> BigEndian(n, 1)]
    ELSE IF n < 32768 THEN [st |-> 2, b |-> BigEndian(n, 2)]
    ELSE IF n < 8388608 THEN [st |-> 3, b |-> BigEndian(n, 3)]
    ELSE [st |-> 4, b |-> BigEndian(n, 4)]

\* root pages of tables in small and in large files
RootPages == {2, 127, 200, 255, 256, 300, 32768, 70000, 8388608, 16909060}

\* RecordBody.ParseAsSchema on the body of the sqlite_master record of a
\* table whose root page is rootpage
DoParseAsSchema ==
    /\ op = NoOp
    /\ \E rootpage \in RootPages, name \in {NameA, NameB} :
          op' = [name |-> "ParseAsSchema", rootpage |-> rootpage,
                 res |-> ParseAsSchema(
                     readRecordBody(
                         Record(<<TextV(TypeTable), TextV(name), TextV(name),
                                  IntegerV(rootpage), TextV(SqlText)>>).data,
                         Record(<<TextV(TypeTable), TextV(name), TextV(name),
                                  IntegerV(rootpage), TextV(SqlText)>>).SerialTypes).Values)]
    /\ UNCHANGED <<file, pagerVars, fanVars, tableVars, catVars>>

(***************************************************************************)
(* C24.  The root page of a schema record is the big-endian value of all   *)
(* the bytes of its rootpage column: the catalog holds the root page the   *)
(* file stores, above 255 too.  ParseAsSchema keeps the first byte of the  *)
(* column in a uint8 field.                                                *)
(***************************************************************************)
C24_RootPageFullWidth ==
    (op.name = "ParseAsSchema") => op.res.RootPage = op.rootpage

(***************************************************************************)
(* The cursor on the tree rooted at page 1 (index.go).                     *)
(***************************************************************************)

\* NewBTree(dbRaw, 1, BTreeTypeTable), then TraverseAll
DoTraverseRoot1 ==
    /\ op = NoOp
    /\ \E ctx \in {Background, Ctx(TRUE, 1)} :
          op' = [name |-> "TraverseRoot1", ctx |-> ctx,
                 res |-> traversePage("table", 1, ctx, 0, 1)]
    /\ UNCHANGED <<file, pagerVars, fanVars, tableVars, catVars>>

\* NewBTree(dbRaw, 1, BTreeTypeTable), then Search for a rowid
DoSearchRoot1 ==
    /\ op = NoOp
    /\ \E rowid \in 1..(MaxSchema + 1) :
          op' = [name |-> "SearchRoot1", searchKey |-> rowid,
                 res |-> searchPage("table", 1, rowid, Background, 0, 1)]
    /\ UNCHANGED <<file, pagerVars, fanVars, tableVars, catVars>>

InitRoot1 ==
    /\ sem = 0
    /\ pc = [c \in Callers |-> "idle"]
    /\ ctxDone = [c \in Callers |-> FALSE]
    /\ doneAtSelect = [c \in Callers |-> FALSE]
    /\ reads = [c \in Callers |-> 0]
    /\ ret = [c \in Callers |-> "none"]
    /\ calls = 0
    /\ file \in SchemaFiles
    /\ op = NoOp
    /\ NoFanout
    /\ columns = << >>
    /\ NoCatalog

NextRoot1 ==
    \/ DoTraverseRoot1
    \/ DoSearchRoot1
    \/ OpReturn

\* a cursor whose root page is page 1, on the files of the schemas
SpecRoot1 == InitRoot1 /\ [][NextRoot1]_vars

\* the leaf cells of the tree rooted at page 1, parsed, in key order
RECURSIVE ParsedCells(_, _)
ParsedCells(cells, i) ==
    IF i > Len(cells) THEN << >>
    ELSE <<ParseLeafCell("table", cells[i]).cell>> \o ParsedCells(cells, i + 1)

(***************************************************************************)
(* C27.  With root page 1 the cursor reads the B-tree page header, the     *)
(* rightmost pointer and the cell pointer array of the root from byte 100  *)
(* of the page on, and every page below it from byte 0: a full traversal   *)
(* returns the leaf cells of the tree, a search the cell with the rowid.   *)
(* On an interior page 1 the rightmost pointer and the cell pointers are   *)
(* read at bytes 8 and 12, inside the database header.                     *)
(***************************************************************************)
C27_Page1HeaderOffset ==
    /\ (op.name = "TraverseRoot1" /\ ~op.ctx.cancels) =>
           (op.res.err = "nil" /\ op.res.cells = ParsedCells(SchemaLeafCells, 1))
    /\ (op.name = "SearchRoot1" /\ op.searchKey <= Len(SchemaLeafCells)) =>
           (op.res.err = "nil"
            /\ op.res.cells = <<ParseLeafCell("table", SchemaLeafCells[op.searchKey]).cell>>)

InitCodec ==
    /\ sem = 0
    /\ pc = [c \in Callers |-> "idle"]
    /\ ctxDone = [c \in Callers |-> FALSE]
    /\ doneAtSelect = [c \in Callers |-> FALSE]
    /\ reads = [c \in Callers |-> 0]
    /\ ret = [c \in Callers |-> "none"]
    /\ calls = 0
    /\ file = NoFile
    /\ op = NoOp
    /\ NoFanout
    /\ columns = << >>
    /\ NoCatalog

NextCodec ==
    \/ DoCellToRow
    \/ DoParseLeafCell
    \/ DoReadCell
    \/ DoParseAsSchema
    \/ OpReturn

\* the decoding functions applied to stored rows, records and cells
SpecCodec == InitCodec /\ [][NextCodec]_vars

====
